---------------------------- MODULE Spec2Model ----------------------------
(***************************************************************************)
(* Retrieval subsystem of the document assistant: Date Parser, Query       *)
(* Analyzer, the date hint of chat_with_assistant, the Hybrid Retriever,   *)
(* the retrieval semaphore and the corpus snapshot.                        *)
(*                                                                         *)
(* The backend services are described in src/backend/README.md; the        *)
(* definitions below follow its code listings where it gives one and the   *)
(* specification's component contracts where it gives none.                *)
(***************************************************************************)
EXTENDS Integers, Sequences, FiniteSets, TLC

(***************************************************************************)
(* Bounds of the model.                                                    *)
(***************************************************************************)
MaxDay == 3        \* day numbers a question may mention: 1..MaxDay
MaxFree == 2       \* length of the free (unstructured) part of a question
MaxDocs == 2       \* documents that may be indexed
KDense == 2        \* k_dense of a retrieve call
KSparse == 2       \* k_bm25 of a retrieve call
FinalK == 2        \* final_k of a retrieve call
MaxReqs == 4       \* retrieval requests of the limiter runs
MaxReaders == 2    \* retrievals reading the corpus in the snapshot runs
MaxVersions == 2   \* corpus snapshots published in the snapshot runs
MaxText == 5       \* characters of a document's text
MaxChunk == 3      \* largest chunk_size of a chunk_documents call
MaxRanked == 3     \* fragments of the corpus in the ranking runs
MaxIndexed == 3    \* document ids of the index runs
MaxFragments == 2  \* fragments of one document in the index runs
MaxRetries == 2    \* retries of an unreachable service before the failure is reported
MaxScore == 3      \* scores a search may give a fragment: 1..MaxScore
MaxSessions == 2   \* chat session ids generateSessionId can give: 1..MaxSessions
MaxClock == 2      \* instants new Date() and created_at can take: 1..MaxClock
MaxHistory == 2    \* rows of the backend's chat history
MaxLocal == 2      \* sessions saved in localStorage before a page load
MaxMessages == 2   \* messages of one chat session
MaxPending == 1    \* handlers of ChatPage suspended at an await at one time
MaxFiles == 3      \* files listed by UploadPage

(***************************************************************************)
(* Program constants.                                                      *)
(***************************************************************************)
CanonicalYear == 2025
CanonicalMonth == 3
HintFirstDay == 1
HintLastDay == 5
RetrievalLimit == 3
OtherYear == CanonicalYear - 1
OtherMonth == CanonicalMonth + 1

(***************************************************************************)
(* Calendar dates.  An ISO date YYYY-MM-DD is the number YYYYMMDD, whose   *)
(* numeric order is the order of the ISO strings.  NoDate is an absent     *)
(* metadata date.                                                          *)
(***************************************************************************)
NoDate == 0

IsoDate(y, m, d) == y * 10000 + m * 100 + d

IsLeap(y) == (y % 4 = 0 /\ y % 100 # 0) \/ y % 400 = 0

DaysIn(y, m) ==
    IF m = 2 THEN (IF IsLeap(y) THEN 29 ELSE 28)
    ELSE IF m \in {4, 6, 9, 11} THEN 30 ELSE 31

ValidDate(y, m, d) == m \in 1..12 /\ d >= 1 /\ d <= DaysIn(y, m)

(***************************************************************************)
(* A question is a sequence of tokens [k, v]: a day number, a month name   *)
(* (Indonesian or English, v its number), a year, a range connector        *)
(* ("sampai", "hingga", "-", "to"), a range opener ("dari", "sepanjang",   *)
(* "from"), "dan"/"and", a comma, a word of the comparative lexicon, or    *)
(* any other word.                                                         *)
(***************************************************************************)
Tok(k, v) == [k |-> k, v |-> v]

Days == 1..MaxDay
Months == {CanonicalMonth, OtherMonth}
Years == {CanonicalYear, OtherYear}

Alphabet ==
    {Tok("num", d) : d \in Days} \cup {Tok("month", m) : m \in Months}
        \cup {Tok("year", y) : y \in Years}
        \cup {Tok(k, 0) : k \in {"to", "from", "and", "comma", "cmp", "word"}}

IsKind(q, i, k) == i >= 1 /\ i <= Len(q) /\ q[i].k = k

\* "Month[, Year]": the year follows the month, after an optional comma.
YearAfter(q, i) ==
    IF IsKind(q, i, "year") THEN q[i].v
    ELSE IF IsKind(q, i, "comma") /\ IsKind(q, i + 1, "year") THEN q[i + 1].v
    ELSE CanonicalYear

RECURSIVE DayRange(_, _, _, _)
DayRange(y, m, d1, d2) ==
    IF d1 > d2 THEN << >>
    ELSE (IF ValidDate(y, m, d1) THEN <<IsoDate(y, m, d1)>> ELSE << >>)
             \o DayRange(y, m, d1 + 1, d2)

\* Form 1: "D1 to D2 Month[, Year]" starting at token i.
RangeAt(q, i) ==
    IF IsKind(q, i, "num") /\ IsKind(q, i + 1, "to") /\ IsKind(q, i + 2, "num")
           /\ IsKind(q, i + 3, "month")
    THEN DayRange(YearAfter(q, i + 4), q[i + 3].v, q[i].v, q[i + 2].v)
    ELSE << >>

\* The position after a list separator at i ("," / "dan" / ", dan"), 0 if none.
AfterSep(q, i) ==
    IF IsKind(q, i, "comma") /\ IsKind(q, i + 1, "and") THEN i + 2
    ELSE IF IsKind(q, i, "comma") \/ IsKind(q, i, "and") THEN i + 1
    ELSE 0

\* The days of "D1, D2, and D3 Month" from token i on: [days, month position],
\* month position 0 when the tokens from i on are no such list.
RECURSIVE ListFrom(_, _)
ListFrom(q, i) ==
    IF ~IsKind(q, i, "num") THEN [days |-> << >>, at |-> 0]
    ELSE IF IsKind(q, i + 1, "month") THEN [days |-> <<q[i].v>>, at |-> i + 1]
    ELSE IF AfterSep(q, i + 1) = 0 THEN [days |-> << >>, at |-> 0]
    ELSE LET rest == ListFrom(q, AfterSep(q, i + 1))
         IN  IF rest.at = 0 THEN rest
             ELSE [days |-> <<q[i].v>> \o rest.days, at |-> rest.at]

RECURSIVE DatesOfDays(_, _, _)
DatesOfDays(y, m, days) ==
    IF days = << >> THEN << >>
    ELSE (IF ValidDate(y, m, Head(days)) THEN <<IsoDate(y, m, Head(days))>>
          ELSE << >>) \o DatesOfDays(y, m, Tail(days))

\* Form 2: "D1, D2, and D3 Month" or "D1 and D2 Month": at least two days.
ListAt(q, i) ==
    LET l == ListFrom(q, i)
    IN  IF l.at # 0 /\ Len(l.days) >= 2
        THEN DatesOfDays(YearAfter(q, l.at + 1), q[l.at].v, l.days)
        ELSE << >>

\* Form 3: "D Month[, Year]".
SingleAt(q, i) ==
    IF IsKind(q, i, "num") /\ IsKind(q, i + 1, "month")
    THEN DatesOfDays(YearAfter(q, i + 2), q[i + 1].v, <<q[i].v>>)
    ELSE << >>

FormAt(form, q, i) ==
    CASE form = "range" -> RangeAt(q, i)
      [] form = "list" -> ListAt(q, i)
      [] OTHER -> SingleAt(q, i)

\* Every match of one form, in text order.
RECURSIVE Matches(_, _, _)
Matches(form, q, i) ==
    IF i > Len(q) THEN << >>
    ELSE FormAt(form, q, i) \o Matches(form, q, i + 1)

SeqToSet(s) == {s[i] : i \in 1..Len(s)}

Min(S) == CHOOSE x \in S : \A y \in S : x <= y

RECURSIVE SortedSeq(_)
SortedSeq(S) ==
    IF S = {} THEN << >> ELSE <<Min(S)>> \o SortedSeq(S \ {Min(S)})

\* Ascending date order, duplicates removed.
NormalizeUnsorted(dates) == dates
Normalize(dates) == SortedSeq(SeqToSet(dates))

\* The forms in priority order: the first form that matches decides.
FoundDatesSingleFirst(q) ==
    IF Matches("single", q, 1) # << >> THEN Matches("single", q, 1)
    ELSE IF Matches("list", q, 1) # << >> THEN Matches("list", q, 1)
    ELSE Matches("range", q, 1)
FoundDates(q) ==
    IF Matches("range", q, 1) # << >> THEN Matches("range", q, 1)
    ELSE IF Matches("list", q, 1) # << >> THEN Matches("list", q, 1)
    ELSE Matches("single", q, 1)

parse_multiple_dates_from_question(q) == Normalize(FoundDates(q))


(***************************************************************************)
(* Query Analyzer.                                                         *)
(***************************************************************************)
is_comparative_query(q) == \E i \in 1..Len(q) : q[i].k = "cmp"

generate_full_month_dates ==
    DayRange(CanonicalYear, CanonicalMonth, 1, DaysIn(CanonicalYear, CanonicalMonth))

\* The (dates, strategy) pair of the decision table, with the comparative test first.
AnalyzeComparativeFirst(q, parsed) ==
    IF is_comparative_query(q)
    THEN [dates |-> generate_full_month_dates, strategy |-> "month_range"]
    ELSE IF parsed # << >> THEN [dates |-> parsed, strategy |-> "explicit"]
    ELSE [dates |-> << >>, strategy |-> "no_filter"]
analyze_query_and_get_dates(q, parsed) ==
    IF parsed # << >> THEN [dates |-> parsed, strategy |-> "explicit"]
    ELSE IF is_comparative_query(q)
    THEN [dates |-> generate_full_month_dates, strategy |-> "month_range"]
    ELSE [dates |-> << >>, strategy |-> "no_filter"]

(***************************************************************************)
(* The date hint chat_with_assistant appends to the question: the dates it *)
(* tells the assistant to use.                                             *)
(***************************************************************************)
HintDates(dates) ==
    IF dates # << >> THEN dates
    ELSE DayRange(CanonicalYear, CanonicalMonth, HintFirstDay, HintLastDay)

(***************************************************************************)
(* Fragments and the Hybrid Retriever.                                     *)
(***************************************************************************)
Texts == {"ta", "tb"}

FragDates ==
    {NoDate, IsoDate(CanonicalYear, CanonicalMonth, 1),
     IsoDate(CanonicalYear, CanonicalMonth, 2),
     IsoDate(CanonicalYear, CanonicalMonth, HintLastDay + 1)}

Docs == 1..MaxDocs

Fragments == [doc : Docs, text : Texts, date : FragDates]

\* The corpora: at most one fragment per document.
Corpora == {c \in SUBSET Fragments : \A f, g \in c : f.doc = g.doc => f = g}

Smaller(a, b) == IF a < b THEN a ELSE b

\* The possible outcomes of a top-k search: k fragments of the corpus (all of
\* them when it holds fewer), best first, in whatever order the scores give.
TopK(c, k) ==
    LET n == Smaller(k, Cardinality(c))
    IN  {s \in [1..n -> c] : \A i, j \in 1..n : s[i] = s[j] => i = j}

\* list({doc.page_content: doc for doc in all_docs}.values()): one fragment per
\* text, at the place of the text's first occurrence, the fragment being the
\* last one of that text.
LastWithText(all, t) ==
    all[CHOOSE i \in 1..Len(all) :
            /\ all[i].text = t
            /\ \A j \in (i + 1)..Len(all) : all[j].text # t]

RECURSIVE DedupFrom(_, _)
DedupFrom(all, i) ==
    IF i > Len(all) THEN << >>
    ELSE (IF \E j \in 1..(i - 1) : all[j].text = all[i].text THEN << >>
          ELSE <<LastWithText(all, all[i].text)>>) \o DedupFrom(all, i + 1)

UnionKeepAll(all) == all
UnionByContent(all) == DedupFrom(all, 1)

\* [d for d in union if d.metadata.get('date') == target_date], for each of the
\* target dates of the call.
KeepAllDates(u, dates) == u
StrictDateFilter(u, dates) ==
    SelectSeq(u, LAMBDA d : d.date # NoDate /\ d.date \in SeqToSet(dates))

FirstK(u, k) == SubSeq(u, 1, Smaller(k, Len(u)))

\* Steps 3 to 5 of retrieve, with an unfiltered fallback for an empty result.
RetrieveWithFallback(dense, bm25, dates, k) ==
    LET u == UnionByContent(dense \o bm25)
        f == IF dates # << >> THEN StrictDateFilter(u, dates) ELSE u
    IN  FirstK(IF f = << >> THEN u ELSE f, k)
HybridRetrieve(dense, bm25, dates, k) ==
    LET u == UnionByContent(dense \o bm25)
        f == IF dates # << >> THEN StrictDateFilter(u, dates) ELSE u
    IN  FirstK(f, k)

(***************************************************************************)
(* The chunker: RecursiveCharacterTextSplitter(chunk_size, chunk_overlap,  *)
(* separators) with the class's defaults keep_separator = True and         *)
(* strip_whitespace = True.  A text is a sequence of characters.           *)
(***************************************************************************)
Chars == {"a", ".", " ", "\n"}
Whitespace == {" ", "\n"}

Separators == << <<"\n", "\n">>, <<"\n">>, <<".", " ">>, <<" ">>, << >> >>

\* Whether sep occurs in text at position i.
OccursAt(text, sep, i) ==
    /\ i + Len(sep) - 1 <= Len(text)
    /\ SubSeq(text, i, i + Len(sep) - 1) = sep

\* re.search(separator, text)
Occurs(text, sep) == \E i \in 1..Len(text) : OccursAt(text, sep, i)

\* re.split with the separator kept at the start of the piece after it:
\* the pieces from position i on, cur the piece under way.
RECURSIVE Pieces(_, _, _, _)
Pieces(text, sep, i, cur) ==
    IF i > Len(text) THEN <<cur>>
    ELSE IF OccursAt(text, sep, i)
         THEN <<cur>> \o Pieces(text, sep, i + Len(sep), sep)
         ELSE Pieces(text, sep, i + 1, Append(cur, text[i]))

NonEmpty(pieces) == SelectSeq(pieces, LAMBDA x : x # << >>)

\* _split_text_with_regex(text, separator, keep_separator = True)
SplitTextWithRegex(text, sep) ==
    IF sep # << >> THEN NonEmpty(Pieces(text, sep, 1, << >>))
    ELSE [i \in 1..Len(text) |-> <<text[i]>>]

\* str.strip()
RECURSIVE StripLeft(_)
StripLeft(t) ==
    IF t # << >> /\ Head(t) \in Whitespace THEN StripLeft(Tail(t)) ELSE t

RECURSIVE StripRight(_)
StripRight(t) ==
    IF t # << >> /\ t[Len(t)] \in Whitespace
    THEN StripRight(SubSeq(t, 1, Len(t) - 1)) ELSE t

Strip(t) == StripRight(StripLeft(t))

RECURSIVE Concat(_)
Concat(pieces) ==
    IF pieces = << >> THEN << >> ELSE Head(pieces) \o Concat(Tail(pieces))

\* _join_docs(docs, separator = ""): the chunk, none when it is empty.
JoinDocs(docs) ==
    LET t == Strip(Concat(docs)) IN IF t = << >> THEN << >> ELSE <<t>>

\* The while loop of _merge_splits: pieces leave the front of current_doc
\* until what is left fits the overlap and leaves room for the next piece.
RECURSIVE PopFront(_, _, _, _, _)
PopFront(current, total, len, size, overlap) ==
    IF total > overlap \/ (total + len > size /\ total > 0)
    THEN PopFront(Tail(current), total - Len(Head(current)), len, size, overlap)
    ELSE [current |-> current, total |-> total]

\* _merge_splits(splits, separator = "") from split i on.
RECURSIVE MergeFrom(_, _, _, _, _, _)
MergeFrom(splits, i, current, total, size, overlap) ==
    IF i > Len(splits) THEN JoinDocs(current)
    ELSE LET d == splits[i]
             full == total + Len(d) > size /\ current # << >>
             kept == IF full THEN PopFront(current, total, Len(d), size, overlap)
                     ELSE [current |-> current, total |-> total]
         IN  (IF full THEN JoinDocs(current) ELSE << >>)
                 \o MergeFrom(splits, i + 1, Append(kept.current, d),
                              kept.total + Len(d), size, overlap)

MergeSplits(splits, size, overlap) == MergeFrom(splits, 1, << >>, 0, size, overlap)

\* The first separator of the list that occurs in the text ("" always does).
RECURSIVE FirstSeparator(_, _, _)
FirstSeparator(text, separators, i) ==
    IF i >= Len(separators) \/ separators[i] = << >> \/ Occurs(text, separators[i])
    THEN i ELSE FirstSeparator(text, separators, i + 1)

\* _split_text(text, separators)
RECURSIVE SplitText(_, _, _, _)
RECURSIVE SplitLoop(_, _, _, _, _, _)
SplitLoop(splits, j, good, new_separators, size, overlap) ==
    IF j > Len(splits) THEN MergeSplits(good, size, overlap)
    ELSE IF Len(splits[j]) < size
         THEN SplitLoop(splits, j + 1, Append(good, splits[j]), new_separators,
                        size, overlap)
         ELSE MergeSplits(good, size, overlap)
                  \o (IF new_separators = << >> THEN <<splits[j]>>
                      ELSE SplitText(splits[j], new_separators, size, overlap))
                  \o SplitLoop(splits, j + 1, << >>, new_separators, size, overlap)

SplitText(text, separators, size, overlap) ==
    LET i == FirstSeparator(text, separators, 1)
        separator == separators[i]
        new_separators ==
            IF separator = << >> THEN << >>
            ELSE SubSeq(separators, i + 1, Len(separators))
    IN  SplitLoop(SplitTextWithRegex(text, separator), 1, << >>, new_separators,
                  size, overlap)

chunk_documents(text, size, overlap) == SplitText(text, Separators, size, overlap)

DocumentTexts == UNION {[1..n -> Chars] : n \in 0..MaxText}

(***************************************************************************)
(* The questions.                                                          *)
(***************************************************************************)
Word == <<Tok("word", 0)>>
Cmp == <<Tok("cmp", 0)>>
Num(d) == <<Tok("num", d)>>
MonthName(m) == <<Tok("month", m)>>
To == <<Tok("to", 0)>>
From == <<Tok("from", 0)>>
And == <<Tok("and", 0)>>
Comma == <<Tok("comma", 0)>>
YearTok(y) == <<Tok("year", y)>>

YearParts == {<< >>, YearTok(CanonicalYear), YearTok(OtherYear),
              Comma \o YearTok(CanonicalYear)}

RangeExprs ==
    {f \o Num(a) \o To \o Num(b) \o MonthName(m) \o y :
        f \in {<< >>, From}, a \in Days, b \in Days, m \in Months, y \in YearParts}

ListExprs ==
    {Num(a) \o s \o Num(b) \o MonthName(m) \o y :
        a \in Days, b \in Days, s \in {And, Comma}, m \in Months, y \in YearParts}
    \cup
    {Num(a) \o Comma \o Num(b) \o s \o Num(c) \o MonthName(m) \o y :
        a \in Days, b \in Days, c \in Days, s \in {And, Comma \o And},
        m \in Months, y \in {<< >>, YearTok(OtherYear)}}

SingleExprs ==
    {Num(a) \o MonthName(m) \o y : a \in Days, m \in Months, y \in YearParts}

FreeTexts == UNION {[1..n -> Alphabet] : n \in 0..MaxFree}

Affixes == {<< >>, Word, Cmp}

Questions ==
    {p \o c \o s :
        p \in Affixes,
        c \in RangeExprs \cup ListExprs \cup SingleExprs \cup FreeTexts,
        s \in Affixes \cup {And \o Num(1) \o MonthName(CanonicalMonth)}}

\* The questions of the retrieval runs: one of every shape.
RetrievalQuestions ==
    {Word, Cmp,
     Num(1) \o MonthName(CanonicalMonth),
     Cmp \o Num(2) \o MonthName(CanonicalMonth),
     Num(1) \o To \o Num(2) \o MonthName(CanonicalMonth),
     Num(1) \o MonthName(OtherMonth)}

(***************************************************************************)
(* State.                                                                  *)
(***************************************************************************)
VARIABLES
    question,      \* the user's question, a token sequence
    parsed_dates,  \* parse_multiple_dates_from_question(question)
    dates_to_use,  \* the analyzer's dates
    strategy,      \* the analyzer's strategy, "" before the analysis
    hint,          \* the dates of the [SYSTEM HINT ...] sent with the question
    call_dates,    \* the dates argument of _retrieve_documents_function
    corpus,        \* the fragments indexed
    dense_docs,    \* the dense search's result
    bm25_docs,     \* the BM25 search's result
    searched,      \* the sub-searches that have returned
    union,         \* the deduplicated union of the two results
    result,        \* the fragments retrieve returns
    pc,            \* the step of the chat request
    req_state,     \* limiter runs: each request's state
    sem_value,     \* retrieval_semaphore's free slots
    waiters,       \* retrieval_semaphore's queue of waiting requests
    dense_task,    \* each request's dense sub-search
    sparse_task,   \* each request's sparse sub-search
    log,           \* Corpus Store: the entries (document ids), in append order
    snapshots,     \* the sparse-index snapshots published so far, oldest first
    building,      \* the snapshot a rebuild is assembling
    rebuilding,    \* whether a rebuild is under way
    reader_state,  \* snapshot runs: each retrieval's state
    reader_held,   \* the snapshot (its version) a retrieval took at its start
    reader_seen,   \* the entries a retrieval has read so far
    normalized,    \* the parser's output written out as YYYY-MM-DD text
    reparsed,      \* the parser's result on that text
    doc_text,      \* chunk_documents: the document's text, a character sequence
    chunk_size,    \* chunk_documents: its chunk_size argument
    chunk_overlap, \* chunk_documents: its chunk_overlap argument
    chunks,        \* the fragments' texts, in index order
    chunked,       \* whether chunk_documents has returned
    dense_score,   \* ranking runs: each fragment's embedding similarity to the query
    bm25_score,    \* ranking runs: each fragment's BM25 score for the query
    k_dense,       \* ranking runs: retrieve's k_dense argument
    on_failure,    \* failure runs: the configured choice, "propagate" or "degrade"
    dense_state,   \* failure runs: the dense search, "pending", "ok" or "failed"
    sparse_state,  \* failure runs: the sparse search, likewise
    attempts,      \* failure runs: failed attempts of the dense search so far
    reported,      \* failure runs: what retrieve reports to its caller
    documents,     \* index runs: the ids of the documents indexed
    removed,       \* index runs: the ids of the documents removed
    fragments,     \* index runs: the Fragments, [doc, index]
    vector_records,\* index runs: the fragment ids of the VectorRecords
    corpus_entries,\* index runs: the fragment ids of the CorpusEntries, in log order
    auth_token,    \* frontend: whether the auth_token cookie is set
    session_id,    \* frontend: whether the session_id cookie is set
    user,          \* AuthContext: the user's role, "null" when there is no user
    loading,       \* AuthContext: loading
    sessions,      \* AuthContext: the session list
    route,         \* the page shown
    rendered,      \* what the page renders: "public", "loading", "null", "children"
    redirect_to,   \* the route of the pending router.push, "none" when none
    auth_pc,       \* the AuthContext call under way
    bg_logout,     \* whether checkAuth's unawaited authAPI.logout() is under way
    token_role,    \* backend: the role of the token's user, "none" once it is invalid
    last_call,     \* the request of the last response apiClient received
    last_status,   \* that response's outcome: "ok", "401" or "error"
    chatSessions,  \* ChatPage: the session list, [id, lastUpdated, messages]
    currentSessionId, \* ChatPage: the current session's id, NoSession for ''
    currentThreadId,  \* ChatPage: the thread id kept for the next message, NoThread for ''
    isLoading,     \* ChatPage: isLoading
    localStorage,  \* the session list saved under the key chatSessions
    backendHistory,\* backend: the chat history rows, [id, session_id, created_at]
    now,           \* the clock read by new Date()
    requests,      \* ChatPage: the handlers suspended at an await, with what they captured
    mounted,       \* ChatPage: whether the mount effect's syncWithBackend has returned
    uploadedFiles, \* UploadPage: the files listed, [batch, status]
    isUploading,   \* UploadPage: isUploading
    uploads,       \* UploadPage: the upload requests under way (their batch numbers)
    outcomes       \* each upload request's outcome: "pending", "ok" or "failed"

chatVars == <<question, parsed_dates, dates_to_use, strategy, hint, call_dates>>
retrVars == <<corpus, dense_docs, bm25_docs, searched, union, result>>
limVars == <<req_state, sem_value, waiters, dense_task, sparse_task>>
snapVars == <<log, snapshots, building, rebuilding, reader_state, reader_held,
              reader_seen>>
normVars == <<normalized, reparsed>>
chunkVars == <<doc_text, chunk_size, chunk_overlap, chunks, chunked>>
earlierVars == <<chatVars, retrVars, pc, limVars, snapVars>>
rankVars == <<dense_score, bm25_score, k_dense>>
failVars == <<on_failure, dense_state, sparse_state, attempts, reported>>
indexVars == <<documents, removed, fragments, vector_records, corpus_entries>>
authVars == <<auth_token, session_id, user, loading, sessions, route, rendered,
              redirect_to, auth_pc, bg_logout, token_role, last_call, last_status>>
chatPageVars == <<chatSessions, currentSessionId, currentThreadId, isLoading,
                  localStorage, backendHistory, now, requests, mounted>>
uploadVars == <<uploadedFiles, isUploading, uploads, outcomes>>
uiVars == <<chatPageVars, uploadVars>>
vars == <<earlierVars, normVars, chunkVars, rankVars, failVars, indexVars, authVars, uiVars>>

\* What the steps of one component leave alone.
otherVars == <<normVars, chunkVars, rankVars, failVars, indexVars, authVars, uiVars>>
outsideChunker == <<earlierVars, normVars, rankVars, failVars, indexVars, authVars, uiVars>>
outsideRanking == <<limVars, snapVars, normVars, chunkVars, failVars, indexVars,
                    authVars, uiVars>>
outsideFailure == <<chatVars, corpus, limVars, snapVars, normVars, chunkVars, rankVars,
                    indexVars, authVars, uiVars>>
outsideIndex == <<earlierVars, normVars, chunkVars, rankVars, failVars, authVars, uiVars>>
outsideAuth == <<earlierVars, normVars, chunkVars, rankVars, failVars, indexVars, uiVars>>
outsideChatPage == <<earlierVars, normVars, chunkVars, rankVars, failVars, indexVars,
                     authVars, uploadVars>>
outsideUpload == <<earlierVars, normVars, chunkVars, rankVars, failVars, indexVars,
                   authVars, chatPageVars>>
outsideChat == <<limVars, snapVars, otherVars>>
outsideLimiter == <<chatVars, retrVars, pc, snapVars, otherVars>>
outsideSnapshot == <<chatVars, retrVars, pc, limVars, otherVars>>

Reqs == 1..MaxReqs
Readers == 1..MaxReaders

InitLimiter ==
    /\ req_state = [r \in Reqs |-> "idle"]
    /\ sem_value = RetrievalLimit
    /\ waiters = << >>
    /\ dense_task = [r \in Reqs |-> "none"]
    /\ sparse_task = [r \in Reqs |-> "none"]

\* The corpus is persisted: a start finds any log, and its index built.
StoredLogs ==
    UNION {{l \in [1..n -> 1..MaxDocs] : \A i, j \in 1..n : l[i] = l[j] => i = j} :
              n \in 0..MaxDocs}

InitSnapshot ==
    /\ log \in StoredLogs
    /\ snapshots = <<log>>
    /\ building = << >>
    /\ rebuilding = FALSE
    /\ reader_state = [r \in Readers |-> "idle"]
    /\ reader_held = [r \in Readers |-> 0]
    /\ reader_seen = [r \in Readers |-> << >>]

InitNormalized ==
    /\ normalized = << >>
    /\ reparsed = << >>

InitChunker ==
    /\ doc_text = << >>
    /\ chunk_size = MaxChunk
    /\ chunk_overlap = 0
    /\ chunks = << >>
    /\ chunked = FALSE

InitRanking ==
    /\ dense_score = << >>
    /\ bm25_score = << >>
    /\ k_dense = KDense

InitFailure ==
    /\ on_failure = "propagate"
    /\ dense_state = "pending"
    /\ sparse_state = "pending"
    /\ attempts = 0
    /\ reported = "pending"

InitIndex ==
    /\ documents = {}
    /\ removed = {}
    /\ fragments = {}
    /\ vector_records = {}
    /\ corpus_entries = << >>

InitAuth ==
    /\ auth_token = FALSE
    /\ session_id = FALSE
    /\ user = "null"
    /\ loading = TRUE
    /\ sessions = << >>
    /\ route = "/"
    /\ rendered = "loading"
    /\ redirect_to = "none"
    /\ auth_pc = "check"
    /\ bg_logout = FALSE
    /\ token_role = "none"
    /\ last_call = "none"
    /\ last_status = "none"

\* useState<string>(''): the empty string of currentSessionId and of
\* currentThreadId.
NoSession == 0
NoThread == 0

\* ChatPage before its mount effect has run, in a browser that holds no
\* saved sessions, against a backend that holds no history; UploadPage as
\* constructed.
InitUi ==
    /\ chatSessions = << >>
    /\ currentSessionId = NoSession
    /\ currentThreadId = NoThread
    /\ isLoading = FALSE
    /\ localStorage = << >>
    /\ backendHistory = {}
    /\ now = 1
    /\ requests = {}
    /\ mounted = FALSE
    /\ uploadedFiles = << >>
    /\ isUploading = FALSE
    /\ uploads = {}
    /\ outcomes = << >>

InitBackend ==
    InitNormalized /\ InitChunker /\ InitRanking /\ InitFailure /\ InitIndex

InitOther == InitBackend /\ InitAuth /\ InitUi

InitChat ==
    /\ parsed_dates = << >>
    /\ dates_to_use = << >>
    /\ strategy = ""
    /\ hint = << >>
    /\ call_dates = << >>
    /\ pc = "parse"

InitRetriever ==
    /\ dense_docs = << >>
    /\ bm25_docs = << >>
    /\ searched = {}
    /\ union = << >>
    /\ result = << >>

\* parsed_dates = parse_multiple_dates_from_question(query)
ParseQuestion ==
    /\ pc = "parse"
    /\ parsed_dates' = parse_multiple_dates_from_question(question)
    /\ pc' = "analyze"
    /\ UNCHANGED <<question, dates_to_use, strategy, hint, call_dates, retrVars>>
    /\ UNCHANGED outsideChat

\* dates_to_use, strategy = analyze_query_and_get_dates(query, parsed_dates)
AnalyzeQuery ==
    /\ pc = "analyze"
    /\ LET a == analyze_query_and_get_dates(question, parsed_dates)
       IN  /\ dates_to_use' = a.dates
           /\ strategy' = a.strategy
    /\ pc' = "hint"
    /\ UNCHANGED <<question, parsed_dates, hint, call_dates, retrVars>>
    /\ UNCHANGED outsideChat

\* enhanced_query = query + hint
InjectHint ==
    /\ pc = "hint"
    /\ hint' = HintDates(dates_to_use)
    /\ pc' = "call"
    /\ UNCHANGED <<question, parsed_dates, dates_to_use, strategy, call_dates,
                   retrVars>>
    /\ UNCHANGED outsideChat

\* The assistant calls _retrieve_documents_function(query, dates) with the
\* dates of the hint.
FunctionCall ==
    /\ pc = "call"
    /\ call_dates' = hint
    /\ pc' = "search"
    /\ UNCHANGED <<question, parsed_dates, dates_to_use, strategy, hint, retrVars>>
    /\ UNCHANGED outsideChat

\* dense_docs = vectorstore.similarity_search(query, k=k_dense)
DenseSearch ==
    /\ pc = "search"
    /\ "dense" \notin searched
    /\ dense_docs' \in TopK(corpus, KDense)
    /\ searched' = searched \cup {"dense"}
    /\ UNCHANGED <<chatVars, corpus, bm25_docs, union, result, pc>>
    /\ UNCHANGED outsideChat

\* bm25_docs = bm25_retriever.get_relevant_documents(query)
Bm25Search ==
    /\ pc = "search"
    /\ "bm25" \notin searched
    /\ bm25_docs' \in TopK(corpus, KSparse)
    /\ searched' = searched \cup {"bm25"}
    /\ UNCHANGED <<chatVars, corpus, dense_docs, union, result, pc>>
    /\ UNCHANGED outsideChat

\* The join: union, strict date filter, top-k.
Retrieve ==
    /\ pc = "search"
    /\ searched = {"dense", "bm25"}
    /\ union' = UnionByContent(dense_docs \o bm25_docs)
    /\ result' = HybridRetrieve(dense_docs, bm25_docs, call_dates, FinalK)
    /\ pc' = "done"
    /\ UNCHANGED <<chatVars, corpus, dense_docs, bm25_docs, searched>>
    /\ UNCHANGED outsideChat

Init ==
    /\ question \in RetrievalQuestions
    /\ corpus \in Corpora
    /\ InitChat
    /\ InitRetriever
    /\ InitLimiter
    /\ InitSnapshot
    /\ log = << >>
    /\ InitOther

Next ==
    \/ ParseQuestion
    \/ AnalyzeQuery
    \/ InjectHint
    \/ FunctionCall
    \/ DenseSearch
    \/ Bm25Search
    \/ Retrieve

Spec == Init /\ [][Next]_vars

\* The question path alone, over every question.
QueryInit ==
    /\ question \in Questions
    /\ corpus = {}
    /\ InitChat
    /\ InitRetriever
    /\ InitLimiter
    /\ InitSnapshot
    /\ log = << >>
    /\ InitOther

QueryNext ==
    \/ ParseQuestion
    \/ AnalyzeQuery
    \/ InjectHint

QuerySpec == QueryInit /\ [][QueryNext]_vars

(***************************************************************************)
(* The parser on its own output.  A ParsedDate is the text YYYY-MM-DD: a   *)
(* year, "-", the month's number, "-", the day's number; the dates of a    *)
(* list are separated by commas.                                           *)
(***************************************************************************)
IsoText(date) ==
    YearTok(date \div 10000) \o To \o Num((date \div 100) % 100) \o To
        \o Num(date % 100)

RECURSIVE IsoTexts(_)
IsoTexts(dates) ==
    IF dates = << >> THEN << >>
    ELSE IF Len(dates) = 1 THEN IsoText(Head(dates))
    ELSE IsoText(Head(dates)) \o Comma \o IsoTexts(Tail(dates))

\* parse_multiple_dates_from_question(", ".join(parsed_dates))
ReparseNormalized ==
    /\ pc = "analyze"
    /\ normalized' = IsoTexts(parsed_dates)
    /\ reparsed' = parse_multiple_dates_from_question(IsoTexts(parsed_dates))
    /\ pc' = "reparsed"
    /\ UNCHANGED <<chatVars, retrVars, limVars, snapVars, chunkVars, rankVars,
                   failVars, indexVars, authVars, uiVars>>

ReparseNext ==
    \/ ParseQuestion
    \/ ReparseNormalized

ReparseSpec == QueryInit /\ [][ReparseNext]_vars

(***************************************************************************)
(* Chunking a document.                                                    *)
(***************************************************************************)
ChunkInit ==
    /\ question = << >>
    /\ corpus = {}
    /\ InitChat
    /\ InitRetriever
    /\ InitLimiter
    /\ InitSnapshot
    /\ log = << >>
    /\ InitNormalized
    /\ InitRanking
    /\ InitFailure
    /\ InitIndex
    /\ InitAuth
    /\ InitUi
    /\ doc_text \in DocumentTexts
    /\ chunk_size \in 2..MaxChunk
    /\ chunk_overlap \in 0..(chunk_size - 1)
    /\ chunks = << >>
    /\ chunked = FALSE

\* chunks = chunk_documents(docs, filepath, chunk_size, chunk_overlap)
ChunkDocument ==
    /\ ~chunked
    /\ chunks' = chunk_documents(doc_text, chunk_size, chunk_overlap)
    /\ chunked' = TRUE
    /\ UNCHANGED <<doc_text, chunk_size, chunk_overlap>>
    /\ UNCHANGED outsideChunker

ChunkNext == ChunkDocument

ChunkSpec == ChunkInit /\ [][ChunkNext]_vars

(***************************************************************************)
(* retrieve with the scores of its two searches.  Every fragment of the    *)
(* corpus has a similarity to the query and a BM25 score; each search      *)
(* returns its k best fragments, best first, ties in any order.            *)
(***************************************************************************)
FirstHintDate == IsoDate(CanonicalYear, CanonicalMonth, HintFirstDay)

\* Fragments of distinct texts, one per document.
ScoredFragments ==
    {[doc |-> d, text |-> [i \in 1..d |-> "t"], date |-> t] :
        d \in 1..MaxRanked, t \in {NoDate, FirstHintDate}}

ScoredCorpora ==
    {c \in SUBSET ScoredFragments : \A f, g \in c : f.doc = g.doc => f = g}

\* The outcomes of a search for the k best of c by score.
BestK(c, score, k) ==
    {s \in TopK(c, k) :
        /\ \A i, j \in 1..Len(s) : i < j => score[s[i]] >= score[s[j]]
        /\ \A f \in c \ SeqToSet(s) : \A i \in 1..Len(s) : score[s[i]] >= score[f]}

RankInit ==
    /\ question = << >>
    /\ InitChat
    /\ InitRetriever
    /\ InitLimiter
    /\ InitSnapshot
    /\ log = << >>
    /\ InitNormalized
    /\ InitChunker
    /\ InitFailure
    /\ InitIndex
    /\ InitAuth
    /\ InitUi
    /\ corpus \in ScoredCorpora
    /\ dense_score \in [corpus -> 1..MaxScore]
    /\ bm25_score \in [corpus -> 1..MaxScore]
    /\ k_dense \in 1..KDense

\* retrieve is called with the dates of the question, or with none.
RankedCall ==
    /\ pc = "parse"
    /\ call_dates' \in {<< >>, <<FirstHintDate>>}
    /\ pc' = "search"
    /\ UNCHANGED <<question, parsed_dates, dates_to_use, strategy, hint, retrVars,
                   rankVars>>
    /\ UNCHANGED outsideRanking

\* dense_docs = vectorstore.similarity_search(query, k=k_dense)
RankedDenseSearch ==
    /\ pc = "search"
    /\ "dense" \notin searched
    /\ dense_docs' \in BestK(corpus, dense_score, k_dense)
    /\ searched' = searched \cup {"dense"}
    /\ UNCHANGED <<chatVars, corpus, bm25_docs, union, result, pc, rankVars>>
    /\ UNCHANGED outsideRanking

\* bm25_docs = bm25_retriever.get_relevant_documents(query)
RankedBm25Search ==
    /\ pc = "search"
    /\ "bm25" \notin searched
    /\ bm25_docs' \in BestK(corpus, bm25_score, KSparse)
    /\ searched' = searched \cup {"bm25"}
    /\ UNCHANGED <<chatVars, corpus, dense_docs, union, result, pc, rankVars>>
    /\ UNCHANGED outsideRanking

\* Steps 3 to 5 of retrieve.
RankedRetrieve ==
    /\ pc = "search"
    /\ searched = {"dense", "bm25"}
    /\ union' = UnionByContent(dense_docs \o bm25_docs)
    /\ result' = HybridRetrieve(dense_docs, bm25_docs, call_dates, FinalK)
    /\ pc' = "done"
    /\ UNCHANGED <<chatVars, corpus, dense_docs, bm25_docs, searched, rankVars>>
    /\ UNCHANGED outsideRanking

RankNext ==
    \/ RankedCall
    \/ RankedDenseSearch
    \/ RankedBm25Search
    \/ RankedRetrieve

RankSpec == RankInit /\ [][RankNext]_vars

(***************************************************************************)
(* retrieve when a search is unavailable.  The dense search calls the      *)
(* embedding and vector-search services: an unreachable service is retried *)
(* MaxRetries times, then the search has failed.  The sparse search reads  *)
(* the corpus snapshot and fails at once when there is none.  With one     *)
(* search failed, retrieve degrades to the other or fails the call, as     *)
(* configured; with both failed it fails the call.                         *)
(***************************************************************************)
DatedCorpora == {c \in ScoredCorpora : \A f \in c : f.doc \in Docs}

\* The degraded result: the remaining search's fragments, strictly filtered.
DegradedUnfiltered(docs, dates, k) == FirstK(UnionByContent(docs), k)
DegradedRetrieve(docs, dates, k) == HybridRetrieve(docs, << >>, dates, k)

\* A retrieval failure: no fragments, and an outcome that says so.
ReportEmpty == [outcome |-> "ok", fragments |-> << >>]
ReportFailure == [outcome |-> "failure", fragments |-> << >>]

RetrievalOutcome(dense_st, sparse_st, config, dense, bm25, dates, k) ==
    IF dense_st = "ok" /\ sparse_st = "ok"
    THEN [outcome |-> "ok", fragments |-> HybridRetrieve(dense, bm25, dates, k)]
    ELSE IF config = "degrade" /\ sparse_st = "ok"
    THEN [outcome |-> "degraded", fragments |-> DegradedRetrieve(bm25, dates, k)]
    ELSE IF config = "degrade" /\ dense_st = "ok"
    THEN [outcome |-> "degraded", fragments |-> DegradedRetrieve(dense, dates, k)]
    ELSE ReportFailure

FailureInit ==
    /\ question = << >>
    /\ parsed_dates = << >>
    /\ dates_to_use = << >>
    /\ strategy = ""
    /\ hint = << >>
    /\ InitRetriever
    /\ InitLimiter
    /\ InitSnapshot
    /\ log = << >>
    /\ InitNormalized
    /\ InitChunker
    /\ InitRanking
    /\ InitIndex
    /\ InitAuth
    /\ InitUi
    /\ corpus \in DatedCorpora
    /\ call_dates \in {<< >>, <<FirstHintDate>>}
    /\ pc = "search"
    /\ on_failure \in {"propagate", "degrade"}
    /\ dense_state = "pending"
    /\ sparse_state = "pending"
    /\ attempts = 0
    /\ reported = "pending"

\* The dense search returns its fragments.
DenseAnswers ==
    /\ pc = "search"
    /\ dense_state = "pending"
    /\ dense_docs' \in TopK(corpus, KDense)
    /\ dense_state' = "ok"
    /\ UNCHANGED <<bm25_docs, searched, union, result, pc, on_failure,
                   sparse_state, attempts, reported>>
    /\ UNCHANGED outsideFailure

\* The embedding or vector-search service is unreachable: retry with
\* backoff, or give up when MaxRetries retries have failed too.
DenseUnreachable ==
    /\ pc = "search"
    /\ dense_state = "pending"
    /\ attempts' = attempts + 1
    /\ dense_state' = IF attempts >= MaxRetries THEN "failed" ELSE "pending"
    /\ UNCHANGED <<retrVars, pc, on_failure, sparse_state, reported>>
    /\ UNCHANGED <<chatVars, limVars, snapVars, normVars, chunkVars, rankVars,
                   indexVars, authVars, uiVars>>

\* The sparse search returns its fragments.
SparseAnswers ==
    /\ pc = "search"
    /\ sparse_state = "pending"
    /\ bm25_docs' \in TopK(corpus, KSparse)
    /\ sparse_state' = "ok"
    /\ UNCHANGED <<dense_docs, searched, union, result, pc, on_failure,
                   dense_state, attempts, reported>>
    /\ UNCHANGED outsideFailure

\* The corpus snapshot is corrupt or missing.
SparseUnavailable ==
    /\ pc = "search"
    /\ sparse_state = "pending"
    /\ sparse_state' = "failed"
    /\ UNCHANGED <<retrVars, pc, on_failure, dense_state, attempts, reported>>
    /\ UNCHANGED <<chatVars, limVars, snapVars, normVars, chunkVars, rankVars,
                   indexVars, authVars, uiVars>>

\* The join: both searches are over, retrieve reports.
ReportOutcome ==
    /\ pc = "search"
    /\ dense_state # "pending"
    /\ sparse_state # "pending"
    /\ LET r == RetrievalOutcome(dense_state, sparse_state, on_failure,
                                 dense_docs, bm25_docs, call_dates, FinalK)
       IN  /\ reported' = r.outcome
           /\ result' = r.fragments
    /\ pc' = "done"
    /\ UNCHANGED <<dense_docs, bm25_docs, searched, union, on_failure,
                   dense_state, sparse_state, attempts>>
    /\ UNCHANGED outsideFailure

FailureNext ==
    \/ DenseAnswers
    \/ DenseUnreachable
    \/ SparseAnswers
    \/ SparseUnavailable
    \/ ReportOutcome

\* The call runs on: each search ends, and the join follows.
FailureSpec == FailureInit /\ [][FailureNext]_vars /\ WF_vars(FailureNext)

(***************************************************************************)
(* indexDocument and removeDocument.  A Fragment is identified by its      *)
(* document and its index in it; a VectorRecord and a CorpusEntry carry    *)
(* the identifier of their Fragment.  A document id is given once, at      *)
(* upload.                                                                 *)
(***************************************************************************)
FragmentsOf(d, n) == {[doc |-> d, index |-> i] : i \in 0..(n - 1)}

\* The entries of a document's fragments, in index order.
EntriesOf(d, n) == [i \in 1..n |-> [doc |-> d, index |-> i - 1]]

\* The corpus log without the entries of document d.
CorpusKept(entries, d) == entries
CorpusWithout(entries, d) == SelectSeq(entries, LAMBDA e : e.doc # d)

\* indexDocument(documentId, text, sourcePath): chunk into n fragments,
\* embed and upsert each, append each to the Corpus Store.
IndexDocument(d, n) ==
    /\ d \notin documents \cup removed
    /\ documents' = documents \cup {d}
    /\ fragments' = fragments \cup FragmentsOf(d, n)
    /\ vector_records' = vector_records \cup FragmentsOf(d, n)
    /\ corpus_entries' = corpus_entries \o EntriesOf(d, n)
    /\ UNCHANGED removed
    /\ UNCHANGED outsideIndex

\* removeDocument(documentId)
RemoveDocument(d) ==
    /\ d \in documents
    /\ documents' = documents \ {d}
    /\ removed' = removed \cup {d}
    /\ fragments' = {f \in fragments : f.doc # d}
    /\ vector_records' = {v \in vector_records : v.doc # d}
    /\ corpus_entries' = CorpusWithout(corpus_entries, d)
    /\ UNCHANGED outsideIndex

IndexInit ==
    /\ question = << >>
    /\ corpus = {}
    /\ InitChat
    /\ InitRetriever
    /\ InitLimiter
    /\ InitSnapshot
    /\ log = << >>
    /\ InitOther

IndexNext ==
    \/ \E d \in 1..MaxIndexed, n \in 1..MaxFragments : IndexDocument(d, n)
    \/ \E d \in 1..MaxIndexed : RemoveDocument(d)

IndexSpec == IndexInit /\ [][IndexNext]_vars

(***************************************************************************)
(* The frontend's authentication: the cookies, apiClient's response        *)
(* interceptor, AuthContext, and the pages' ProtectedRoute.  A user is     *)
(* known by its role.  A response is "ok", "401", or "error" (any other    *)
(* failure, the network's included).                                       *)
(***************************************************************************)
Roles == {"user", "admin", "uploader"}

Routes == {"/", "/auth/login", "/chat", "/upload", "/admin"}

\* allowedRoles of the page's ProtectedRoute; none on a page without one.
AllowedRoles(r) ==
    CASE r = "/chat" -> {"user"}
      [] r = "/upload" -> {"admin", "uploader"}
      [] r = "/admin" -> {"admin"}
      [] OTHER -> {}

\* The responses a request may get, by whether it carries a valid token.
Responses(authorized) == IF authorized THEN {"ok", "error"} ELSE {"401", "error"}

\* The response interceptor, on the auth_token cookie.
Intercepted(status, cookie) == IF status = "401" THEN FALSE ELSE cookie

\* authAPI.logout's finally, on a cookie.
CookieAfterFailedLogout(status, cookie) == IF status = "ok" THEN FALSE ELSE cookie
CookieAfterLogout(status, cookie) == FALSE

\* login's redirect by role.
LoginRedirectChat(role) == "/chat"
LoginRedirect(role) == IF role \in {"admin", "uploader"} THEN "/upload" ELSE "/chat"

\* ProtectedRoute: what it renders, and the router.push of its effect.
ProtectedRouteAnyRole(ld, u, allowed) ==
    [rendered |-> IF ld THEN "loading" ELSE IF u = "null" THEN "null" ELSE "children",
     push |-> IF ~ld /\ u = "null" THEN "/auth/login" ELSE "none"]
ProtectedRoute(ld, u, allowed) ==
    [rendered |->
         IF ld THEN "loading"
         ELSE IF u = "null" \/ u \notin allowed THEN "null"
         ELSE "children",
     push |->
         IF ld THEN "none"
         ELSE IF u = "null" THEN "/auth/login"
         ELSE IF u \notin allowed
              THEN (IF u \in {"admin", "uploader"} THEN "/upload" ELSE "/chat")
         ELSE "none"]

HomePage(ld, u) ==
    [rendered |-> IF ld THEN "loading" ELSE "null",
     push |->
         IF ld THEN "none"
         ELSE IF u = "null" THEN "/auth/login"
         ELSE IF u \in {"admin", "uploader"} THEN "/upload"
         ELSE "/chat"]

\* The page at route r under the AuthContext values ld, u.
Page(ld, u, r) ==
    IF r = "/" THEN HomePage(ld, u)
    ELSE IF AllowedRoles(r) # {} THEN ProtectedRoute(ld, u, AllowedRoles(r))
    ELSE [rendered |-> "public", push |-> "none"]

\* The render that follows a change, and its effect; a push the page does
\* not make leaves the pending one.
Render(ld, u, r, pending) ==
    /\ rendered' = Page(ld, u, r).rendered
    /\ redirect_to' =
           IF Page(ld, u, r).push # "none" THEN Page(ld, u, r).push ELSE pending

\* A page load: any cookies, any session on the backend, any page.
AuthInit ==
    /\ question = << >>
    /\ corpus = {}
    /\ InitChat
    /\ InitRetriever
    /\ InitLimiter
    /\ InitSnapshot
    /\ log = << >>
    /\ InitBackend
    /\ InitUi
    /\ auth_token \in BOOLEAN
    /\ session_id \in BOOLEAN
    /\ token_role \in Roles \cup {"none"}
    /\ route \in Routes
    /\ user = "null"
    /\ loading = TRUE
    /\ sessions = << >>
    /\ rendered = Page(TRUE, "null", route).rendered
    /\ redirect_to = "none"
    /\ auth_pc = "check"
    /\ bg_logout = FALSE
    /\ last_call = "none"
    /\ last_status = "none"

\* checkAuth without a cookie: no request.
CheckAuthNoCookie ==
    /\ auth_pc = "check"
    /\ ~auth_token
    /\ loading' = FALSE
    /\ auth_pc' = "idle"
    /\ Render(FALSE, user, route, redirect_to)
    /\ UNCHANGED <<auth_token, session_id, user, sessions, route, bg_logout,
                   token_role, last_call, last_status>>
    /\ UNCHANGED outsideAuth

\* checkAuth with a cookie: GET /auth/me answers.
CheckAuth(status) ==
    /\ auth_pc = "check"
    /\ auth_token
    /\ status \in Responses(token_role # "none")
    /\ last_call' = "check"
    /\ last_status' = status
    /\ auth_token' = Intercepted(status, auth_token)
    /\ user' = IF status = "ok" THEN token_role ELSE user
    /\ bg_logout' = (status # "ok")
    /\ loading' = FALSE
    /\ auth_pc' = "idle"
    /\ Render(FALSE, user', route, redirect_to)
    /\ UNCHANGED <<session_id, sessions, route, token_role>>
    /\ UNCHANGED outsideAuth

\* The POST /auth/logout of checkAuth's authAPI.logout() answers.
BackgroundLogoutEnds(status) ==
    /\ bg_logout
    /\ last_call' = "checkAuth logout"
    /\ last_status' = status
    /\ auth_token' = CookieAfterLogout(status, Intercepted(status, auth_token))
    /\ session_id' = CookieAfterLogout(status, session_id)
    /\ bg_logout' = FALSE
    /\ UNCHANGED <<user, loading, sessions, route, rendered, redirect_to, auth_pc,
                   token_role>>
    /\ UNCHANGED outsideAuth

\* login: POST /auth/login answers, for an account of the given role.
LoginRequest(role, status) ==
    /\ auth_pc = "idle"
    /\ route = "/auth/login"
    /\ last_call' = "login"
    /\ last_status' = status
    /\ IF status = "ok"
       THEN /\ auth_token' = TRUE
            /\ session_id' = TRUE
            /\ token_role' = role
            /\ auth_pc' = "login_me"
       ELSE /\ auth_token' = Intercepted(status, auth_token)
            /\ UNCHANGED <<session_id, token_role, auth_pc>>
    /\ UNCHANGED <<user, loading, sessions, route, rendered, redirect_to, bg_logout>>
    /\ UNCHANGED outsideAuth

\* login: GET /auth/me answers.
LoginFetchUser(status) ==
    /\ auth_pc = "login_me"
    /\ status \in Responses(token_role # "none")
    /\ last_call' = "me"
    /\ last_status' = status
    /\ auth_token' = Intercepted(status, auth_token)
    /\ user' = IF status = "ok" THEN token_role ELSE user
    /\ auth_pc' = "idle"
    /\ IF status = "ok"
       THEN Render(loading, token_role, route, LoginRedirect(token_role))
       ELSE UNCHANGED <<rendered, redirect_to>>
    /\ UNCHANGED <<session_id, loading, sessions, route, bg_logout, token_role>>
    /\ UNCHANGED outsideAuth

\* logout is called.
LogoutRequest ==
    /\ auth_pc = "idle"
    /\ user # "null"
    /\ auth_pc' = "logout_post"
    /\ UNCHANGED <<auth_token, session_id, user, loading, sessions, route, rendered,
                   redirect_to, bg_logout, token_role, last_call, last_status>>
    /\ UNCHANGED outsideAuth

\* logout: POST /auth/logout answers.
LogoutResponds(status) ==
    /\ auth_pc = "logout_post"
    /\ status \in Responses(auth_token /\ token_role # "none")
    /\ last_call' = "logout"
    /\ last_status' = status
    /\ auth_token' = CookieAfterLogout(status, Intercepted(status, auth_token))
    /\ session_id' = CookieAfterLogout(status, session_id)
    /\ token_role' = IF status = "ok" THEN "none" ELSE token_role
    /\ user' = "null"
    /\ sessions' = << >>
    /\ auth_pc' = "idle"
    /\ Render(loading, "null", route, "/auth/login")
    /\ UNCHANGED <<loading, route, bg_logout>>
    /\ UNCHANGED outsideAuth

\* refreshSessions: GET /auth/sessions answers.
RefreshSessions(status) ==
    /\ auth_pc = "idle"
    /\ user # "null"
    /\ ~loading
    /\ status \in Responses(auth_token /\ token_role # "none")
    /\ last_call' = "sessions"
    /\ last_status' = status
    /\ auth_token' = Intercepted(status, auth_token)
    /\ sessions' = IF status = "ok" THEN <<"current">> ELSE sessions
    /\ UNCHANGED <<session_id, user, loading, route, rendered, redirect_to, auth_pc,
                   bg_logout, token_role>>
    /\ UNCHANGED outsideAuth

\* The backend's session ends: the token expires or is revoked.
SessionExpires ==
    /\ token_role # "none"
    /\ token_role' = "none"
    /\ UNCHANGED <<auth_token, session_id, user, loading, sessions, route, rendered,
                   redirect_to, auth_pc, bg_logout, last_call, last_status>>
    /\ UNCHANGED outsideAuth

\* The router follows the pending push.
FollowRedirect ==
    /\ redirect_to # "none"
    /\ route' = redirect_to
    /\ Render(loading, user, redirect_to, "none")
    /\ UNCHANGED <<auth_token, session_id, user, loading, sessions, auth_pc,
                   bg_logout, token_role, last_call, last_status>>
    /\ UNCHANGED outsideAuth

\* The user follows a link to another page.
Navigate(r) ==
    /\ auth_pc = "idle"
    /\ redirect_to = "none"
    /\ r # route
    /\ route' = r
    /\ Render(loading, user, r, "none")
    /\ UNCHANGED <<auth_token, session_id, user, loading, sessions, auth_pc,
                   bg_logout, token_role, last_call, last_status>>
    /\ UNCHANGED outsideAuth

AuthNext ==
    \/ CheckAuthNoCookie
    \/ \E status \in {"ok", "401", "error"} : CheckAuth(status)
    \/ \E status \in {"ok", "401", "error"} : BackgroundLogoutEnds(status)
    \/ \E role \in Roles, status \in {"ok", "401", "error"} : LoginRequest(role, status)
    \/ \E status \in {"ok", "401", "error"} : LoginFetchUser(status)
    \/ LogoutRequest
    \/ \E status \in {"ok", "401", "error"} : LogoutResponds(status)
    \/ \E status \in {"ok", "401", "error"} : RefreshSessions(status)
    \/ SessionExpires
    \/ FollowRedirect
    \/ \E r \in Routes : Navigate(r)

AuthSpec == AuthInit /\ [][AuthNext]_vars

(***************************************************************************)
(* The chat service of the frontend (lib/chatService.ts): the sessions    *)
(* built from the backend's history and their merge with the sessions of  *)
(* localStorage.  A session is [id, lastUpdated, messages]; a message is  *)
(* [role, chat], chat being the history row it was built from and NoChat  *)
(* for a message ChatPage made, whose id is Date.now().                    *)
(***************************************************************************)
NoChat == 0

\* `legacy_${messageDate.toDateString()...}`: the id of the rows that have no
\* session_id; the instants of the model fall on one day.
LegacyId == MaxSessions + 1

\* sort((a, b) => b.lastUpdated - a.lastUpdated): Array.prototype.sort is
\* stable, so sessions of equal lastUpdated keep their order.
RECURSIVE NewestFirst(_)
NewestFirst(ss) ==
    IF ss = << >> THEN << >>
    ELSE LET i == CHOOSE i \in 1..Len(ss) :
                      /\ \A j \in 1..Len(ss) : ss[j].lastUpdated <= ss[i].lastUpdated
                      /\ \A j \in 1..(i - 1) : ss[j].lastUpdated < ss[i].lastUpdated
         IN  <<ss[i]>> \o NewestFirst(SubSeq(ss, 1, i - 1) \o SubSeq(ss, i + 1, Len(ss)))

\* The history is sorted oldest first (rows of equal created_at in the order
\* of their ids), a session is opened at the first row of each session_id,
\* every row adds its question and its answer and sets lastUpdated, and the
\* sessions are returned newest first.
convertBackendHistoryToSessions(history) ==
    LET RECURSIVE Oldest(_)
        Oldest(h) ==
            IF h = {} THEN << >>
            ELSE LET r == CHOOSE r \in h : \A q \in h :
                              \/ r.created_at < q.created_at
                              \/ r.created_at = q.created_at /\ r.id <= q.id
                 IN  <<r>> \o Oldest(h \ {r})
        sessionId(item) ==
            IF item.session_id # NoSession THEN item.session_id ELSE LegacyId
        pair(item) == <<[role |-> "user", chat |-> item.id],
                        [role |-> "assistant", chat |-> item.id]>>
        RECURSIVE Group(_, _)
        Group(rows, map) ==
            IF rows = << >> THEN map
            ELSE LET item == Head(rows)
                     known == \E i \in 1..Len(map) : map[i].id = sessionId(item)
                 IN  Group(Tail(rows),
                       IF known
                       THEN [i \in 1..Len(map) |->
                               IF map[i].id = sessionId(item)
                               THEN [id |-> map[i].id,
                                     lastUpdated |-> item.created_at,
                                     messages |-> map[i].messages \o pair(item)]
                               ELSE map[i]]
                       ELSE Append(map, [id |-> sessionId(item),
                                         lastUpdated |-> item.created_at,
                                         messages |-> pair(item)]))
    IN  IF history = {} THEN << >> ELSE NewestFirst(Group(Oldest(history), << >>))

\* A merge that would let the local copy of a session win.
smartMergeLocalFirst(backendSessions, localSessions) ==
    LET RECURSIVE Merge(_, _)
        Merge(merged, rest) ==
            IF rest = << >> THEN merged
            ELSE Merge(IF \E i \in 1..Len(merged) : merged[i].id = Head(rest).id
                       THEN merged ELSE Append(merged, Head(rest)),
                       Tail(rest))
    IN  NewestFirst(Merge(localSessions, backendSessions))

\* The backend's sessions first, then the local sessions whose id the map
\* does not hold yet, sorted newest first.
smartMergeSessions(backendSessions, localSessions) ==
    LET RECURSIVE Merge(_, _)
        Merge(merged, rest) ==
            IF rest = << >> THEN merged
            ELSE Merge(IF \E i \in 1..Len(merged) : merged[i].id = Head(rest).id
                       THEN merged ELSE Append(merged, Head(rest)),
                       Tail(rest))
    IN  NewestFirst(Merge(backendSessions, localSessions))

\* syncWithBackend's result, which it also saves: loadChatHistory gives the
\* history, or [] when the request fails.
syncWithBackend(history, loaded, localSessions) ==
    smartMergeSessions(
        convertBackendHistoryToSessions(IF loaded THEN history ELSE {}),
        localSessions)



(***************************************************************************)
(* ChatPage (the chat page component).  A handler that awaits a request   *)
(* is two steps: the part up to the await, which leaves in requests what   *)
(* the handler's closure captured at its render, and the part after it.   *)
(* A request in requests is [kind, session, thread, messages, cur, first]. *)
(***************************************************************************)
SessionIdsOf(ss) == {ss[i].id : i \in 1..Len(ss)}

\* const currentSession = chatSessions.find(session => session.id === currentSessionId)
currentSession ==
    IF currentSessionId \in SessionIdsOf(chatSessions)
    THEN LET i == CHOOSE i \in 1..Len(chatSessions) :
                      /\ chatSessions[i].id = currentSessionId
                      /\ \A j \in 1..(i - 1) : chatSessions[j].id # currentSessionId
         IN  <<chatSessions[i]>>
    ELSE << >>

\* generateSessionId(): an id that nothing holds.
FreshIds ==
    (1..MaxSessions) \ (SessionIdsOf(chatSessions) \cup SessionIdsOf(localStorage)
                        \cup {h.session_id : h \in backendHistory}
                        \cup {r.session : r \in requests}
                        \cup {r.thread : r \in requests}
                        \cup {r.first : r \in requests}
                        \cup {currentSessionId, currentThreadId})

\* A handler that would leave the updated session where it is.
moveSessionNowhere(ss, sessionId) == ss

moveSessionToTop(ss, sessionId) ==
    IF sessionId \notin SessionIdsOf(ss) THEN ss
    ELSE LET sessionIndex == CHOOSE i \in 1..Len(ss) :
                      /\ ss[i].id = sessionId
                      /\ \A j \in 1..(i - 1) : ss[j].id # sessionId
         IN  <<ss[sessionIndex]>> \o SelectSeq(ss, LAMBDA x : x.id # sessionId)

\* setChatSessions(prev => ...) of the message handlers: the session of the
\* given id gets lastUpdated: new Date() and the messages given, in place
\* of its own (replace) or after its own, moves to the top, and the list is
\* saved to localStorage.
UpdateSession(sessionId, replace, msgs) ==
    LET updated == [i \in 1..Len(chatSessions) |->
                      IF chatSessions[i].id = sessionId
                      THEN [id |-> sessionId, lastUpdated |-> now,
                            messages |-> IF replace THEN msgs
                                         ELSE chatSessions[i].messages \o msgs]
                      ELSE chatSessions[i]]
        reordered == moveSessionToTop(updated, sessionId)
    IN  /\ chatSessions' = reordered
        /\ localStorage' = reordered

\* Time passes.
Tick ==
    /\ now < MaxClock
    /\ now' = now + 1
    /\ UNCHANGED <<chatSessions, currentSessionId, currentThreadId, isLoading,
                   localStorage, backendHistory, requests, mounted>>
    /\ UNCHANGED outsideChatPage

\* The mount effect, from the return of syncWithBackend (the history is the
\* one the backend holds then): the merged sessions, the first of them
\* current; with none, a new session, which is not saved.
LoadChatHistory(loaded) ==
    LET merged == syncWithBackend(backendHistory, loaded, localStorage)
    IN  /\ ~mounted
        /\ mounted' = TRUE
        /\ localStorage' = merged
        /\ IF Len(merged) > 0
           THEN /\ chatSessions' = merged
                /\ currentSessionId' = merged[1].id
           ELSE /\ FreshIds # {}
                /\ LET id == Min(FreshIds)
                   IN  /\ chatSessions' =
                              <<[id |-> id, lastUpdated |-> now, messages |-> << >>]>>
                       /\ currentSessionId' = id
        /\ UNCHANGED <<currentThreadId, isLoading, backendHistory, now, requests>>
        /\ UNCHANGED outsideChatPage

\* refreshChatHistory, from the return of syncWithBackend.
refreshChatHistory(loaded) ==
    LET merged == syncWithBackend(backendHistory, loaded, localStorage)
    IN  /\ localStorage' = merged
        /\ IF Len(merged) > 0
           THEN /\ chatSessions' = merged
                /\ currentSessionId' = merged[1].id
           ELSE UNCHANGED <<chatSessions, currentSessionId>>
        /\ UNCHANGED <<currentThreadId, isLoading, backendHistory, now, requests,
                       mounted>>
        /\ UNCHANGED outsideChatPage

\* handleSendMessage up to its await: the user's message joins the current
\* session and the request leaves with currentSessionId and currentThreadId.
handleSendMessage ==
    /\ ~isLoading
    /\ currentSession # << >>
    /\ currentSessionId # NoSession
    /\ Len(currentSession[1].messages) + 2 <= MaxMessages
    /\ Cardinality(requests) < MaxPending
    /\ UpdateSession(currentSessionId, FALSE, <<[role |-> "user", chat |-> NoChat]>>)
    /\ isLoading' = TRUE
    /\ requests' = requests \cup
           {[kind |-> "send", session |-> currentSessionId,
             thread |-> currentThreadId,
             messages |-> << >>, cur |-> NoSession, first |-> NoSession]}
    /\ UNCHANGED <<currentSessionId, currentThreadId, backendHistory, now, mounted>>
    /\ UNCHANGED outsideChatPage

\* handleSendMessage after its await.  An answer sets currentThreadId to the
\* thread_id returned (the thread sent, or a new thread, named by the
\* session of the request that opened it), and the backend keeps the
\* exchange as a history row; the answer, or the error message, joins the
\* session of the id the handler captured.
SendResponds(r, ok) ==
    /\ r \in requests
    /\ r.kind = "send"
    /\ requests' = requests \ {r}
    /\ isLoading' = FALSE
    /\ UpdateSession(r.session, FALSE, <<[role |-> "assistant", chat |-> NoChat]>>)
    /\ IF ok
       THEN /\ Cardinality(backendHistory) < MaxHistory
            /\ backendHistory' = backendHistory \cup
                   {[id |-> Min((1..MaxHistory) \ {h.id : h \in backendHistory}),
                     session_id |-> r.session, created_at |-> now]}
            /\ currentThreadId' = IF r.thread # NoThread THEN r.thread ELSE r.session
       ELSE UNCHANGED <<backendHistory, currentThreadId>>
    /\ UNCHANGED <<currentSessionId, now, mounted>>
    /\ UNCHANGED outsideChatPage

\* regenerateMessage(messageIndex) up to its await: the messages before the
\* answer are kept when the last of them is the user's.
regenerateMessage(messageIndex) ==
    /\ currentSession # << >>
    /\ messageIndex >= 1
    /\ ~isLoading
    /\ messageIndex < Len(currentSession[1].messages)
    /\ currentSession[1].messages[messageIndex + 1].role = "assistant"
    /\ currentSession[1].messages[messageIndex].role = "user"
    /\ Cardinality(requests) < MaxPending
    /\ LET updatedMessages == SubSeq(currentSession[1].messages, 1, messageIndex)
       IN  /\ UpdateSession(currentSessionId, TRUE, updatedMessages)
           /\ requests' = requests \cup
                  {[kind |-> "regenerate", session |-> currentSessionId,
                    thread |-> NoThread,
                    messages |-> updatedMessages, cur |-> NoSession, first |-> NoSession]}
    /\ isLoading' = TRUE
    /\ UNCHANGED <<currentSessionId, currentThreadId, backendHistory, now, mounted>>
    /\ UNCHANGED outsideChatPage

\* saveEditMessage(messageId) on the user's message at a position: followed
\* by an answer, the messages up to it are kept and the answer is asked
\* again (isLoading is not consulted); otherwise the message is updated.
saveEditMessage(position) ==
    /\ currentSession # << >>
    /\ position \in 1..Len(currentSession[1].messages)
    /\ currentSession[1].messages[position].role = "user"
    /\ IF /\ position < Len(currentSession[1].messages)
          /\ currentSession[1].messages[position + 1].role = "assistant"
       THEN LET messagesUpToEdit == SubSeq(currentSession[1].messages, 1, position)
            IN  /\ Cardinality(requests) < MaxPending
                /\ UpdateSession(currentSessionId, TRUE, messagesUpToEdit)
                /\ requests' = requests \cup
                       {[kind |-> "edit", session |-> currentSessionId,
                         thread |-> NoThread,
                         messages |-> messagesUpToEdit, cur |-> NoSession, first |-> NoSession]}
                /\ isLoading' = TRUE
       ELSE /\ UpdateSession(currentSessionId, TRUE, currentSession[1].messages)
            /\ UNCHANGED <<requests, isLoading>>
    /\ UNCHANGED <<currentSessionId, currentThreadId, backendHistory, now, mounted>>
    /\ UNCHANGED outsideChatPage

\* regenerateMessage and saveEditMessage after their await of
\* chatService.sendMessage: the answer follows the messages captured; a
\* failure is only logged.
AnswerAgain(r, ok) ==
    /\ r \in requests
    /\ r.kind \in {"regenerate", "edit"}
    /\ requests' = requests \ {r}
    /\ isLoading' = FALSE
    /\ IF ok
       THEN /\ Cardinality(backendHistory) < MaxHistory
            /\ backendHistory' = backendHistory \cup
                   {[id |-> Min((1..MaxHistory) \ {h.id : h \in backendHistory}),
                     session_id |-> r.session, created_at |-> now]}
            /\ UpdateSession(r.session, TRUE,
                   Append(r.messages, [role |-> "assistant", chat |-> NoChat]))
       ELSE UNCHANGED <<backendHistory, chatSessions, localStorage>>
    /\ UNCHANGED <<currentSessionId, currentThreadId, now, mounted>>
    /\ UNCHANGED outsideChatPage

startNewChat ==
    /\ FreshIds # {}
    /\ LET newSession == [id |-> Min(FreshIds), lastUpdated |-> now,
                          messages |-> << >>]
       IN  /\ chatSessions' = <<newSession>> \o chatSessions
           /\ localStorage' = <<newSession>> \o chatSessions
           /\ currentSessionId' = newSession.id
    /\ currentThreadId' = NoThread
    /\ UNCHANGED <<isLoading, backendHistory, now, requests, mounted>>
    /\ UNCHANGED outsideChatPage

\* switchToSession(sessionId), on a session of the sidebar.
switchToSession(sessionId) ==
    /\ sessionId \in SessionIdsOf(chatSessions)
    /\ currentSessionId' = sessionId
    /\ currentThreadId' = NoThread
    /\ UNCHANGED <<chatSessions, isLoading, localStorage, backendHistory, now,
                   requests, mounted>>
    /\ UNCHANGED outsideChatPage

\* deleteSession's last part: the session leaves the list, the list is
\* saved, and the handler switches to remainingSessions[0] when the
\* currentSessionId it captured is the session deleted and the chatSessions
\* it captured had more than one session (first is NoSession otherwise).
SessionDeleted(sessionId, cur, first) ==
    /\ chatSessions' = SelectSeq(chatSessions, LAMBDA x : x.id # sessionId)
    /\ localStorage' = SelectSeq(chatSessions, LAMBDA x : x.id # sessionId)
    /\ currentSessionId' =
           IF cur = sessionId /\ first # NoSession THEN first ELSE currentSessionId

\* deleteSession(sessionId), on a session of the sidebar: it awaits
\* chatService.deleteChatHistory for each of the user's messages whose id is
\* user_<row>, and with none it runs to its end.
deleteSession(sessionId) ==
    /\ sessionId \in SessionIdsOf(chatSessions)
    /\ LET remainingSessions == SelectSeq(chatSessions, LAMBDA x : x.id # sessionId)
           first == IF Len(chatSessions) > 1 /\ remainingSessions # << >>
                    THEN remainingSessions[1].id ELSE NoSession
           sessionToDelete ==
               chatSessions[CHOOSE i \in 1..Len(chatSessions) :
                   /\ chatSessions[i].id = sessionId
                   /\ \A j \in 1..(i - 1) : chatSessions[j].id # sessionId]
           rows == {sessionToDelete.messages[k].chat : k \in
                      {k \in 1..Len(sessionToDelete.messages) :
                          /\ sessionToDelete.messages[k].role = "user"
                          /\ sessionToDelete.messages[k].chat # NoChat}}
       IN  IF rows = {}
           THEN /\ SessionDeleted(sessionId, currentSessionId, first)
                /\ UNCHANGED requests
           ELSE /\ Cardinality(requests) < MaxPending
                /\ requests' = requests \cup
                       {[kind |-> "delete", session |-> sessionId,
                         thread |-> NoThread,
                         messages |-> << >>, cur |-> currentSessionId, first |-> first]}
                /\ UNCHANGED <<chatSessions, localStorage, currentSessionId>>
    /\ UNCHANGED <<currentThreadId, isLoading, backendHistory, now, mounted>>
    /\ UNCHANGED outsideChatPage

\* deleteSession after its awaits: each deleteChatHistory has deleted its
\* row or has failed and returned false.
DeleteResumes(r, deleted) ==
    /\ r \in requests
    /\ r.kind = "delete"
    /\ deleted \subseteq {h \in backendHistory : h.session_id = r.session}
    /\ backendHistory' = backendHistory \ deleted
    /\ requests' = requests \ {r}
    /\ SessionDeleted(r.session, r.cur, r.first)
    /\ UNCHANGED <<currentThreadId, isLoading, now, mounted>>
    /\ UNCHANGED outsideChatPage

\* clearAllSessions up to its await of chatService.clearAllChatHistory.
clearAllSessions ==
    /\ Cardinality(requests) < MaxPending
    /\ requests' = requests \cup
           {[kind |-> "clear", session |-> NoSession,
             thread |-> NoThread,
             messages |-> << >>, cur |-> NoSession, first |-> NoSession]}
    /\ UNCHANGED <<chatSessions, currentSessionId, currentThreadId, isLoading,
                   localStorage, backendHistory, now, mounted>>
    /\ UNCHANGED outsideChatPage

\* clearAllSessions after its await.
ClearResumes(r, ok) ==
    /\ r \in requests
    /\ r.kind = "clear"
    /\ requests' = requests \ {r}
    /\ backendHistory' = IF ok THEN {} ELSE backendHistory
    /\ chatSessions' = << >>
    /\ currentSessionId' = NoSession
    /\ localStorage' = << >>
    /\ UNCHANGED <<currentThreadId, isLoading, now, mounted>>
    /\ UNCHANGED outsideChatPage

\* A page load in a new browser, against a backend with no history.
ChatPageInit ==
    /\ question = << >>
    /\ corpus = {}
    /\ InitChat
    /\ InitRetriever
    /\ InitLimiter
    /\ InitSnapshot
    /\ log = << >>
    /\ InitBackend
    /\ InitAuth
    /\ InitUi

ChatPageNext ==
    \/ Tick
    \/ \E loaded \in BOOLEAN : LoadChatHistory(loaded)
    \/ \E loaded \in BOOLEAN : refreshChatHistory(loaded)
    \/ handleSendMessage
    \/ \E r \in requests, ok \in BOOLEAN : SendResponds(r, ok)
    \/ \E i \in 1..MaxMessages : regenerateMessage(i)
    \/ \E i \in 1..MaxMessages : saveEditMessage(i)
    \/ \E r \in requests, ok \in BOOLEAN : AnswerAgain(r, ok)
    \/ startNewChat
    \/ \E s \in 1..MaxSessions : switchToSession(s)
    \/ \E s \in 1..MaxSessions : deleteSession(s)
    \/ \E r \in requests : \E deleted \in SUBSET backendHistory : DeleteResumes(r, deleted)
    \/ clearAllSessions
    \/ \E r \in requests, ok \in BOOLEAN : ClearResumes(r, ok)

ChatPageSpec == ChatPageInit /\ [][ChatPageNext]_vars

\* A page load in a browser that holds the sessions of earlier visits,
\* newest first and of distinct ids, each with a message of the page's own,
\* against a backend that holds history rows created in the order of their
\* ids.
SyncInit ==
    /\ question = << >>
    /\ corpus = {}
    /\ InitChat
    /\ InitRetriever
    /\ InitLimiter
    /\ InitSnapshot
    /\ log = << >>
    /\ InitBackend
    /\ InitAuth
    /\ uploadedFiles = << >>
    /\ isUploading = FALSE
    /\ uploads = {}
    /\ outcomes = << >>
    /\ chatSessions = << >>
    /\ currentSessionId = NoSession
    /\ currentThreadId = NoThread
    /\ isLoading = FALSE
    /\ now = MaxClock
    /\ requests = {}
    /\ mounted = FALSE
    /\ \E n \in 0..MaxHistory :
         \E rows \in [1..n -> [session_id : 0..MaxSessions, created_at : 1..MaxClock]] :
           /\ \A i \in 1..n : \A j \in 1..n :
                  i < j => rows[i].created_at <= rows[j].created_at
           /\ backendHistory =
                  {[id |-> i, session_id |-> rows[i].session_id,
                    created_at |-> rows[i].created_at] : i \in 1..n}
    /\ \E n \in 0..MaxLocal :
         \E saved \in [1..n -> [id : 1..MaxSessions, lastUpdated : 1..MaxClock,
                                messages : {<<[role |-> "user", chat |-> NoChat]>>}]] :
           /\ \A i \in 1..n : \A j \in 1..n :
                  i < j => /\ saved[i].id # saved[j].id
                           /\ saved[i].lastUpdated >= saved[j].lastUpdated
           /\ localStorage = saved

SyncNext ==
    \/ \E loaded \in BOOLEAN : LoadChatHistory(loaded)
    \/ \E loaded \in BOOLEAN : refreshChatHistory(loaded)

SyncSpec == SyncInit /\ [][SyncNext]_vars



(***************************************************************************)
(* UploadPage.  A file of the list is [ext, batch, status], batch being    *)
(* the call of handleFileUpload that listed it; outcomes keeps what became *)
(* of each call's upload request.                                          *)
(***************************************************************************)
supportedExtensions == {".pdf", ".docx", ".txt", ".csv", ".json", ".xlsx"}

\* handleFileUpload(files) up to its await, files given by their extensions
\* (lower case, from the last dot); token is whether authAPI.getToken()
\* finds the cookie.  The supported files are listed as uploading and put
\* in the form data.  With none the call ends; without a token the catch
\* block marks every file of the list as error; otherwise the request leaves.
handleFileUpload(files, token) ==
    LET valid == SelectSeq(files, LAMBDA ext : ext \in supportedExtensions)
        batch == Len(outcomes) + 1
        listed == uploadedFiles \o
                      [i \in 1..Len(valid) |->
                          [ext |-> valid[i], batch |-> batch, status |-> "uploading"]]
    IN  /\ Len(files) > 0
        /\ Len(listed) <= MaxFiles
        /\ Len(outcomes) < MaxFiles
        /\ IF Len(valid) = 0
           THEN /\ isUploading' = FALSE
                /\ UNCHANGED <<uploadedFiles, uploads, outcomes>>
           ELSE IF ~token
           THEN /\ uploadedFiles' =
                       [i \in 1..Len(listed) |-> [listed[i] EXCEPT !.status = "error"]]
                /\ isUploading' = FALSE
                /\ outcomes' = Append(outcomes, "failed")
                /\ UNCHANGED uploads
           ELSE /\ uploadedFiles' = listed
                /\ isUploading' = TRUE
                /\ outcomes' = Append(outcomes, "pending")
                /\ uploads' = uploads \cup {[batch |-> batch, files |-> valid]}
        /\ UNCHANGED outsideUpload

\* handleFileUpload after its await: response.ok marks every file of the
\* list as success, anything else marks every file of the list as error.
UploadResponds(u, ok) ==
    /\ u \in uploads
    /\ uploads' = uploads \ {u}
    /\ outcomes' = [outcomes EXCEPT ![u.batch] = IF ok THEN "ok" ELSE "failed"]
    /\ uploadedFiles' =
           [i \in 1..Len(uploadedFiles) |->
               [uploadedFiles[i] EXCEPT !.status = IF ok THEN "success" ELSE "error"]]
    /\ isUploading' = FALSE
    /\ UNCHANGED outsideUpload

\* removeFile(fileId), on a file of the list.
removeFile(i) ==
    /\ i \in 1..Len(uploadedFiles)
    /\ uploadedFiles' = SubSeq(uploadedFiles, 1, i - 1)
                            \o SubSeq(uploadedFiles, i + 1, Len(uploadedFiles))
    /\ UNCHANGED <<isUploading, uploads, outcomes>>
    /\ UNCHANGED outsideUpload

UploadInit ==
    /\ question = << >>
    /\ corpus = {}
    /\ InitChat
    /\ InitRetriever
    /\ InitLimiter
    /\ InitSnapshot
    /\ log = << >>
    /\ InitBackend
    /\ InitAuth
    /\ InitUi

\* The files of a selection or a drop: up to two, supported or not.
UploadNext ==
    \/ \E n \in 1..2 : \E files \in [1..n -> {".pdf", ".txt", ".exe"}] :
           \E token \in BOOLEAN : handleFileUpload(files, token)
    \/ \E u \in uploads, ok \in BOOLEAN : UploadResponds(u, ok)
    \/ \E i \in 1..MaxFiles : removeFile(i)

UploadSpec == UploadInit /\ [][UploadNext]_vars



(***************************************************************************)
(* The retrieval semaphore: retrieval_semaphore = asyncio.Semaphore(3),    *)
(* held by a retrieval from its admission to its end.                      *)
(***************************************************************************)
Running == {r \in Reqs : req_state[r] = "running"}

\* acquire(): a free slot and nobody queued admits the request at once and
\* starts its two sub-searches; otherwise the request queues.
ArriveNoLimit(r) ==
    /\ req_state[r] = "idle"
    /\ req_state' = [req_state EXCEPT ![r] = "running"]
    /\ sem_value' = sem_value - 1
    /\ dense_task' = [dense_task EXCEPT ![r] = "running"]
    /\ sparse_task' = [sparse_task EXCEPT ![r] = "running"]
    /\ UNCHANGED waiters
    /\ UNCHANGED outsideLimiter
Arrive(r) ==
    /\ req_state[r] = "idle"
    /\ IF sem_value > 0 /\ waiters = << >>
       THEN /\ req_state' = [req_state EXCEPT ![r] = "running"]
            /\ sem_value' = sem_value - 1
            /\ dense_task' = [dense_task EXCEPT ![r] = "running"]
            /\ sparse_task' = [sparse_task EXCEPT ![r] = "running"]
            /\ UNCHANGED waiters
       ELSE /\ req_state' = [req_state EXCEPT ![r] = "waiting"]
            /\ waiters' = Append(waiters, r)
            /\ dense_task' = [dense_task EXCEPT ![r] = "none"]
            /\ sparse_task' = [sparse_task EXCEPT ![r] = "none"]
            /\ UNCHANGED sem_value
    /\ UNCHANGED outsideLimiter

\* release(), as request r ends with `outcome` and its sub-searches in states
\* d and s: the slot goes to the first waiter, which starts, or back to the
\* semaphore.
Release(r, outcome, d, s) ==
    IF waiters # << >>
    THEN /\ req_state' = [req_state EXCEPT ![r] = outcome,
                                           ![Head(waiters)] = "running"]
         /\ dense_task' = [dense_task EXCEPT ![r] = d,
                                             ![Head(waiters)] = "running"]
         /\ sparse_task' = [sparse_task EXCEPT ![r] = s,
                                               ![Head(waiters)] = "running"]
         /\ waiters' = Tail(waiters)
         /\ UNCHANGED sem_value
    ELSE /\ req_state' = [req_state EXCEPT ![r] = outcome]
         /\ dense_task' = [dense_task EXCEPT ![r] = d]
         /\ sparse_task' = [sparse_task EXCEPT ![r] = s]
         /\ sem_value' = sem_value + 1
         /\ UNCHANGED waiters

DenseReturns(r) ==
    /\ req_state[r] = "running"
    /\ dense_task[r] = "running"
    /\ dense_task' = [dense_task EXCEPT ![r] = "done"]
    /\ UNCHANGED <<req_state, sem_value, waiters, sparse_task>>
    /\ UNCHANGED outsideLimiter

SparseReturns(r) ==
    /\ req_state[r] = "running"
    /\ sparse_task[r] = "running"
    /\ sparse_task' = [sparse_task EXCEPT ![r] = "done"]
    /\ UNCHANGED <<req_state, sem_value, waiters, dense_task>>
    /\ UNCHANGED outsideLimiter

\* The join: both sub-searches returned, the retrieval ends.
Complete(r) ==
    /\ req_state[r] = "running"
    /\ dense_task[r] = "done"
    /\ sparse_task[r] = "done"
    /\ Release(r, "done", "done", "done")
    /\ UNCHANGED outsideLimiter

Cancelled(t) == IF t = "running" THEN "cancelled" ELSE t

\* A sub-search raises: the other one is cancelled and the retrieval fails.
DenseFails(r) ==
    /\ req_state[r] = "running"
    /\ dense_task[r] = "running"
    /\ Release(r, "failed", "failed", Cancelled(sparse_task[r]))
    /\ UNCHANGED outsideLimiter

SparseFails(r) ==
    /\ req_state[r] = "running"
    /\ sparse_task[r] = "running"
    /\ Release(r, "failed", Cancelled(dense_task[r]), "failed")
    /\ UNCHANGED outsideLimiter

\* The retrieval task's timeout: both sub-searches are cancelled and the slot
\* is released.
TimeoutKeepsSlot(r) ==
    /\ req_state[r] = "running"
    /\ req_state' = [req_state EXCEPT ![r] = "cancelled"]
    /\ dense_task' = [dense_task EXCEPT ![r] = Cancelled(dense_task[r])]
    /\ sparse_task' = [sparse_task EXCEPT ![r] = Cancelled(sparse_task[r])]
    /\ UNCHANGED <<sem_value, waiters>>
    /\ UNCHANGED outsideLimiter
Timeout(r) ==
    /\ req_state[r] = "running"
    /\ Release(r, "cancelled", Cancelled(dense_task[r]), Cancelled(sparse_task[r]))
    /\ UNCHANGED outsideLimiter

LimiterInit ==
    /\ question = << >>
    /\ corpus = {}
    /\ InitChat
    /\ InitRetriever
    /\ InitLimiter
    /\ InitSnapshot
    /\ log = << >>
    /\ InitOther

LimiterNext ==
    \E r \in Reqs :
        \/ Arrive(r)
        \/ DenseReturns(r)
        \/ SparseReturns(r)
        \/ Complete(r)
        \/ DenseFails(r)
        \/ SparseFails(r)
        \/ Timeout(r)

\* The event loop runs every task that can run: a sub-search that is not
\* cancelled returns or raises, and a retrieval whose sub-searches returned ends.
Progress ==
    \E r \in Reqs : DenseReturns(r) \/ SparseReturns(r) \/ Complete(r)
                       \/ DenseFails(r) \/ SparseFails(r) \/ Timeout(r)

LimiterSpec == LimiterInit /\ [][LimiterNext]_vars /\ WF_vars(Progress)

\* C6 - Concurrency limiter: never more than 3 retrievals are in flight; a
\* request that arrives is admitted or, the limit being reached, queued, never
\* rejected or failed by the limiter; a request leaves the queue only by being
\* admitted, and the requests that wait are eventually all admitted.
NeverMoreThanLimit == Cardinality(Running) <= 3

ArrivalAdmitsOrQueues ==
    \A r \in Reqs :
        (req_state[r] = "idle" /\ req_state'[r] # "idle")
            => /\ req_state'[r] \in {"waiting", "running"}
               /\ req_state'[r] = "waiting" => Cardinality(Running) = 3

QueueLeftByAdmission ==
    \A r \in Reqs :
        (req_state[r] = "waiting" /\ req_state'[r] # "waiting")
            => req_state'[r] = "running"

LimiterContract ==
    /\ []NeverMoreThanLimit
    /\ [][ArrivalAdmitsOrQueues /\ QueueLeftByAdmission]_vars
    /\ (\E r \in Reqs : req_state[r] = "waiting")
           ~> (\A r \in Reqs : req_state[r] # "waiting")

\* Three retrievals are in flight and a fourth request waits in the queue.
LimiterWitness ==
    /\ Cardinality(Running) = 3
    /\ waiters # << >>
    /\ req_state[Head(waiters)] = "waiting"

\* C8 - Cancellation releases the limiter: the slots held are as many as the
\* retrievals in flight, and no sub-search of a retrieval that timed out is
\* still running.
SlotsMatchInFlight ==
    /\ 3 - sem_value = Cardinality(Running)
    /\ \A r \in Reqs :
           req_state[r] = "cancelled"
               => dense_task[r] # "running" /\ sparse_task[r] # "running"

\* One retrieval timed out with both sub-searches cancelled, one failed, one
\* completed, and a retrieval is in flight on a slot taken again.
CancellationWitness ==
    /\ \E r \in Reqs : /\ req_state[r] = "cancelled"
                       /\ dense_task[r] = "cancelled"
                       /\ sparse_task[r] = "cancelled"
    /\ \E r \in Reqs : req_state[r] = "failed"
    /\ \E r \in Reqs : req_state[r] = "done"
    /\ Running # {}
    /\ sem_value = 2


(***************************************************************************)
(* The Corpus Store and the sparse index built from it: an append-only log *)
(* of entries and a rebuild that assembles a new immutable snapshot and     *)
(* swaps it in; a retrieval reads the snapshot it took at its start.        *)
(***************************************************************************)
Current == Len(snapshots)

Without(s, d) == SelectSeq(s, LAMBDA e : e # d)

\* indexDocument: the entry is appended to the log and a rebuild starts.
AppendEntries(d) ==
    /\ ~rebuilding
    /\ Current < MaxVersions
    /\ d \notin SeqToSet(log)
    /\ log' = Append(log, d)
    /\ building' = << >>
    /\ rebuilding' = TRUE
    /\ UNCHANGED <<snapshots, reader_state, reader_held, reader_seen>>
    /\ UNCHANGED outsideSnapshot

\* removeDocument: the document's entries leave the log and a rebuild starts.
RemoveEntries(d) ==
    /\ ~rebuilding
    /\ Current < MaxVersions
    /\ d \in SeqToSet(log)
    /\ log' = Without(log, d)
    /\ building' = << >>
    /\ rebuilding' = TRUE
    /\ UNCHANGED <<snapshots, reader_state, reader_held, reader_seen>>
    /\ UNCHANGED outsideSnapshot

\* The rebuild indexes the next entry of the log into the new snapshot.
RebuildStep ==
    /\ rebuilding
    /\ Len(building) < Len(log)
    /\ building' = Append(building, log[Len(building) + 1])
    /\ UNCHANGED <<log, snapshots, rebuilding, reader_state, reader_held,
                   reader_seen>>
    /\ UNCHANGED outsideSnapshot

\* The finished snapshot replaces the current one in one step.
SwapSnapshot ==
    /\ rebuilding
    /\ Len(building) = Len(log)
    /\ snapshots' = Append(snapshots, building)
    /\ building' = << >>
    /\ rebuilding' = FALSE
    /\ UNCHANGED <<log, reader_state, reader_held, reader_seen>>
    /\ UNCHANGED outsideSnapshot

\* The entries retrieval r reads: those of the snapshot it holds.
ReadsCurrent(r) == snapshots[Current]
SnapshotOf(r) == snapshots[reader_held[r]]

\* A retrieval starts: it takes a reference to the current snapshot.
BeginRetrieval(r) ==
    /\ reader_state[r] \in {"idle", "done"}
    /\ reader_state' = [reader_state EXCEPT ![r] = "reading"]
    /\ reader_held' = [reader_held EXCEPT ![r] = Current]
    /\ reader_seen' = [reader_seen EXCEPT ![r] = << >>]
    /\ UNCHANGED <<log, snapshots, building, rebuilding>>
    /\ UNCHANGED outsideSnapshot

\* The sparse search scores the next entry.
ReadEntry(r) ==
    /\ reader_state[r] = "reading"
    /\ Len(reader_seen[r]) < Len(SnapshotOf(r))
    /\ reader_seen' = [reader_seen EXCEPT
                          ![r] = Append(@, SnapshotOf(r)[Len(@) + 1])]
    /\ UNCHANGED <<log, snapshots, building, rebuilding, reader_state, reader_held>>
    /\ UNCHANGED outsideSnapshot

\* Every entry is scored: the retrieval ends.
EndRetrieval(r) ==
    /\ reader_state[r] = "reading"
    /\ Len(reader_seen[r]) >= Len(SnapshotOf(r))
    /\ reader_state' = [reader_state EXCEPT ![r] = "done"]
    /\ UNCHANGED <<log, snapshots, building, rebuilding, reader_held, reader_seen>>
    /\ UNCHANGED outsideSnapshot

SnapshotInit ==
    /\ question = << >>
    /\ corpus = {}
    /\ InitChat
    /\ InitRetriever
    /\ InitLimiter
    /\ InitSnapshot
    /\ InitOther

SnapshotNext ==
    \/ \E d \in Docs : AppendEntries(d) \/ RemoveEntries(d)
    \/ RebuildStep
    \/ SwapSnapshot
    \/ \E r \in Readers : BeginRetrieval(r) \/ ReadEntry(r) \/ EndRetrieval(r)

SnapshotSpec == SnapshotInit /\ [][SnapshotNext]_vars

IsPrefix(s, t) == Len(s) <= Len(t) /\ \A i \in 1..Len(s) : s[i] = t[i]

Retrieved == pc = "done"

InDates(f, dates) == \E i \in 1..Len(dates) : dates[i] = f.date

\* C1 - Strict-filter invariant: when the strategy is not no_filter and the
\* date set of the retrieval is non-empty, every fragment of the result has a
\* metadata date that is a member of the date set; a fragment with no date or
\* with a date outside the set is never returned, however it ranked.
StrictFilterInvariant ==
    (Retrieved /\ strategy # "no_filter" /\ call_dates # << >>)
        => \A i \in 1..Len(result) :
               result[i].date # NoDate /\ InDates(result[i], call_dates)

\* A date-scoped retrieval in which an undated fragment ranked first in the
\* dense search and a fragment outside the date set first in the BM25 search,
\* and the result still holds a fragment.
StrictFilterWitness ==
    /\ Retrieved
    /\ strategy = "explicit"
    /\ dense_docs # << >> /\ dense_docs[1].date = NoDate
    /\ bm25_docs # << >> /\ ~InDates(bm25_docs[1], call_dates)
    /\ result # << >>

\* C2 - No-fallback invariant: when no candidate of the union has a date of
\* the date set, the result of the date-filtered retrieval is empty; it is not
\* filled again with unfiltered candidates.
NoFallbackInvariant ==
    (Retrieved /\ call_dates # << >>
        /\ \A i \in 1..Len(union) : ~InDates(union[i], call_dates))
        => result = << >>

\* Candidates were found, none of them in the date set, and the result is empty.
NoFallbackWitness ==
    /\ Retrieved
    /\ strategy = "explicit"
    /\ union # << >>
    /\ \A i \in 1..Len(union) : ~InDates(union[i], call_dates)
    /\ result = << >>

\* C3 - Deduplication invariant: no two fragments of one result (nor of the
\* union it is cut from) have the same text.
DeduplicationInvariant ==
    Retrieved =>
        /\ \A i, j \in 1..Len(result) : result[i].text = result[j].text => i = j
        /\ \A i, j \in 1..Len(union) : union[i].text = union[j].text => i = j

\* One fragment came back from both searches, two fragments of different
\* documents have the same text, and that text is in the result once.
DeduplicationWitness ==
    /\ Retrieved
    /\ \E i \in 1..Len(dense_docs), j \in 1..Len(bm25_docs) :
           dense_docs[i] = bm25_docs[j]
    /\ \E i, j \in 1..Len(dense_docs) :
           /\ dense_docs[i].doc # dense_docs[j].doc
           /\ dense_docs[i].text = dense_docs[j].text
           /\ Cardinality({k \in 1..Len(result) :
                              result[k].text = dense_docs[i].text}) = 1

Analyzed == strategy # ""

HasComparativeWord == \E i \in 1..Len(question) : question[i].k = "cmp"

\* C4 - Query Analyzer decision table: parsed dates make the strategy explicit
\* with the parsed dates unchanged, also for a comparative question; otherwise
\* a comparative question gets month_range with every date of March 2025;
\* otherwise the strategy is no_filter with no dates.
DecisionTable ==
    Analyzed =>
        /\ parsed_dates # << >>
               => strategy = "explicit" /\ dates_to_use = parsed_dates
        /\ (parsed_dates = << >> /\ HasComparativeWord)
               => /\ strategy = "month_range"
                  /\ dates_to_use = [d \in 1..31 |-> 20250300 + d]
        /\ (parsed_dates = << >> /\ ~HasComparativeWord)
               => strategy = "no_filter" /\ dates_to_use = << >>

\* A comparative question that names a date was analysed as explicit.
DecisionTableWitness ==
    /\ Analyzed
    /\ HasComparativeWord
    /\ parsed_dates # << >>
    /\ strategy = "explicit"

\* C5 - A question with no date and no comparative intent proceeds unfiltered:
\* no dates are made up for it in the hint or in the retrieval call, and the
\* result is the union cut to final_k, whatever the fragments' dates.
NoFilterUnfiltered ==
    strategy = "no_filter" =>
        /\ hint = << >>
        /\ call_dates = << >>
        /\ Retrieved => result = SubSeq(union, 1, Len(result))
                            /\ (Len(result) = FinalK \/ Len(result) = Len(union))

Parsed == pc # "parse"

RangeHere(i) ==
    /\ IsKind(question, i, "num") /\ IsKind(question, i + 1, "to")
    /\ IsKind(question, i + 2, "num") /\ IsKind(question, i + 3, "month")

YearHere(i) ==
    IF IsKind(question, i, "year") THEN question[i].v
    ELSE IF IsKind(question, i, "comma") /\ IsKind(question, i + 1, "year")
    THEN question[i + 1].v ELSE 2025

\* C9 - Range expansion: a range "D1 to D2 Month[, Year]" in the question
\* yields every date from D1 to D2 of that month, of 2025 when no year is
\* given, and (the question holding one range) nothing else.
RangeExpansion ==
    Parsed =>
        \A i \in 1..Len(question) :
            (RangeHere(i) /\ question[i].v <= question[i + 2].v) =>
                LET base == YearHere(i + 4) * 10000 + question[i + 3].v * 100
                    d1 == question[i].v
                    d2 == question[i + 2].v
                IN  /\ \A d \in d1..d2 :
                           \E k \in 1..Len(parsed_dates) : parsed_dates[k] = base + d
                    /\ (\A j \in 1..Len(question) : RangeHere(j) => j = i)
                           => parsed_dates = [k \in 1..(d2 - d1 + 1) |-> base + d1 + k - 1]

\* "1-3 Maret" was parsed to 2025-03-01, 2025-03-02, 2025-03-03.
RangeExpansionWitness ==
    /\ Parsed
    /\ question = <<Tok("num", 1), Tok("to", 0), Tok("num", 3), Tok("month", 3)>>
    /\ parsed_dates = <<20250301, 20250302, 20250303>>

Reparsed == pc = "reparsed"

NormalizationIdempotent ==
    Reparsed => SeqToSet(reparsed) = SeqToSet(parsed_dates)

(***************************************************************************)
(* C12 - Round-trip chunking: concatenating the fragments in index order   *)
(* while trimming the overlap between consecutive fragments reconstructs   *)
(* the document's text exactly; consecutive fragments overlap by at most   *)
(* chunk_overlap characters and together cover the whole text.             *)
(***************************************************************************)
\* t continued by fragment c, whose first o characters repeat t's last o.
Overlaps(t, c, o) ==
    /\ o <= Len(t)
    /\ o <= Len(c)
    /\ SubSeq(t, Len(t) - o + 1, Len(t)) = SubSeq(c, 1, o)

\* The texts the fragments from the i-th on can continue t to.
RECURSIVE Rejoined(_, _, _, _)
Rejoined(cs, i, t, overlap) ==
    IF i > Len(cs) THEN {t}
    ELSE UNION {Rejoined(cs, i + 1, t \o SubSeq(cs[i], o + 1, Len(cs[i])), overlap) :
                   o \in {o \in 0..overlap : Overlaps(t, cs[i], o)}}

RoundTripChunking ==
    chunked => doc_text \in Rejoined(chunks, 1, << >>, chunk_overlap)

(***************************************************************************)
(* C13 - Ranking and truncation: the fragments retrieve returns are        *)
(* ordered by dense-similarity score, the keyword score breaking ties,     *)
(* and they are at most final_k: the final_k best-ranked fragments of the  *)
(* filtered set.                                                           *)
(***************************************************************************)
\* f ranks no lower than g.
RanksBefore(f, g) ==
    \/ dense_score[f] > dense_score[g]
    \/ dense_score[f] = dense_score[g] /\ bm25_score[f] >= bm25_score[g]

\* The union of the two searches after the strict date filter.
FilteredSet ==
    SeqToSet(IF call_dates # << >> THEN StrictDateFilter(union, call_dates)
             ELSE union)

RankedAndTruncated ==
    pc = "done" =>
        /\ Len(result) = Smaller(FinalK, Cardinality(FilteredSet))
        /\ SeqToSet(result) \subseteq FilteredSet
        /\ \A i, j \in 1..Len(result) : i < j => RanksBefore(result[i], result[j])
        /\ \A f \in FilteredSet \ SeqToSet(result) :
               \A i \in 1..Len(result) : RanksBefore(result[i], f)

(***************************************************************************)
(* C14 - Degraded retrieval keeps the filter: when one search is           *)
(* unavailable and retrieve degrades to the other, the strict date filter  *)
(* is still applied: a degraded result holds no fragment whose date is     *)
(* outside the query's dates.                                              *)
(***************************************************************************)
DegradedKeepsFilter ==
    (pc = "done" /\ reported = "degraded" /\ call_dates # << >>) =>
        \A i \in 1..Len(result) : InDates(result[i], call_dates)

\* A degraded, filtered result that is not empty, the remaining search
\* having found a fragment outside the dates first.
DegradedKeepsFilterWitness ==
    /\ pc = "done"
    /\ reported = "degraded"
    /\ call_dates # << >>
    /\ result # << >>
    /\ \/ dense_state = "failed" /\ ~InDates(bm25_docs[1], call_dates)
       \/ sparse_state = "failed" /\ ~InDates(dense_docs[1], call_dates)

(***************************************************************************)
(* C15 - Bounded retry: an unreachable embedding or vector-search service  *)
(* is retried a bounded number of times, then a retrieval failure is       *)
(* reported to the caller; the retrieval never retries forever, and the    *)
(* failure is an outcome of its own, never the valid empty result that     *)
(* strict filtering produces.                                              *)
(***************************************************************************)
SearchFailed == dense_state = "failed" \/ sparse_state = "failed"

CallFails ==
    \/ dense_state = "failed" /\ sparse_state = "failed"
    \/ SearchFailed /\ on_failure = "propagate"

RetriesWithinBound ==
    /\ attempts <= MaxRetries + 1
    /\ dense_state = "failed" <=> attempts = MaxRetries + 1
    /\ pc = "done" =>
           /\ reported = "failure" <=> CallFails
           /\ reported = "ok" <=> ~SearchFailed

BoundedRetry == []RetriesWithinBound /\ <>(pc = "done")

\* The failure reported once the call and its MaxRetries retries have failed.
BoundedRetryWitness ==
    /\ pc = "done"
    /\ reported = "failure"
    /\ attempts = MaxRetries + 1
    /\ sparse_state = "ok"
    /\ result = << >>

Protected == AllowedRoles(route) # {}

ProtectedRouteGuards ==
    Protected =>
        /\ rendered = "children" =>
               ~loading /\ user # "null" /\ user \in AllowedRoles(route)
        /\ (~loading /\ user = "null") =>
               rendered # "children" /\ redirect_to = "/auth/login"
        /\ (~loading /\ user # "null" /\ user \notin AllowedRoles(route)) =>
               /\ rendered # "children"
               /\ user \in {"admin", "uploader"} => redirect_to = "/upload"
               /\ user \notin {"admin", "uploader"} => redirect_to = "/chat"

\* An admin on the chat page: nothing rendered, on the way to /upload.
ProtectedRouteWitness ==
    /\ route = "/chat"
    /\ ~loading
    /\ user = "admin"
    /\ rendered = "null"
    /\ redirect_to = "/upload"

(***************************************************************************)
(* C18 - Login flow: a successful login stores the JWT in the auth_token   *)
(* cookie and the session id in the session_id cookie, then fetches the    *)
(* user and sets the AuthContext user, then redirects admin and uploader   *)
(* to /upload and user to /chat; if the login request or the user fetch    *)
(* fails, the user state stays null and no redirect happens.               *)
(***************************************************************************)
Statuses == {"ok", "401", "error"}

LoginStores(status) ==
    IF status = "ok"
    THEN auth_token' /\ session_id' /\ auth_pc' = "login_me" /\ user' = user
             /\ redirect_to' = redirect_to
    ELSE auth_pc' = "idle" /\ (user = "null" => user' = "null")
             /\ redirect_to' = redirect_to

LoginSetsUser(status) ==
    IF status = "ok"
    THEN /\ user' = token_role
         /\ user' \in {"admin", "uploader"} => redirect_to' = "/upload"
         /\ user' = "user" => redirect_to' = "/chat"
    ELSE (user = "null" => user' = "null") /\ redirect_to' = redirect_to

LoginFlow ==
    [][/\ \A role \in Roles, status \in Statuses :
              LoginRequest(role, status) => LoginStores(status)
       /\ \A status \in Statuses :
              LoginFetchUser(status) => LoginSetsUser(status)]_vars

\* An uploader just logged in: both cookies, the user, the way to /upload.
LoginFlowWitness ==
    /\ last_call = "me"
    /\ last_status = "ok"
    /\ auth_token
    /\ session_id
    /\ user = "uploader"
    /\ route = "/auth/login"
    /\ redirect_to = "/upload"

(***************************************************************************)
(* C19 - 401 handling: after any API response with status 401 received     *)
(* through apiClient the authentication cookies are removed and the user   *)
(* is redirected to the login page by AuthContext: the application does    *)
(* not stay in an authenticated state (user set, protected content         *)
(* rendered) once the token has been rejected.                             *)
(***************************************************************************)
\* No AuthContext call, and no logout of checkAuth, is under way.
AuthSettled == auth_pc = "idle" /\ ~bg_logout

\* The last response is a 401 to a request that carried the token.
TokenRejected == last_status = "401" /\ last_call # "login"

RejectedTokenLogsOut ==
    (TokenRejected /\ AuthSettled) =>
        /\ ~auth_token
        /\ ~session_id
        /\ user = "null"
        /\ rendered # "children"
        /\ route = "/auth/login" \/ redirect_to = "/auth/login"

(***************************************************************************)
(* C20 - Logout always completes locally: whether POST /auth/logout        *)
(* succeeds or fails, logout removes the auth_token and session_id         *)
(* cookies, clears the AuthContext user and session list, and redirects    *)
(* to /auth/login.                                                         *)
(***************************************************************************)
LoggedOut ==
    /\ ~auth_token
    /\ ~session_id
    /\ user = "null"
    /\ sessions = << >>
    /\ redirect_to = "/auth/login"

LogoutCompletesLocally ==
    [][\A status \in Statuses : LogoutResponds(status) => LoggedOut']_vars

\* Logged out although the POST failed.
LogoutCompletesWitness ==
    /\ last_call = "logout"
    /\ last_status = "error"
    /\ auth_pc = "idle"
    /\ LoggedOut


(***************************************************************************)
(* C21 - syncWithBackend's merge: the merged session list holds each       *)
(* session id at most once; a session whose id is in the backend's history *)
(* is the backend's version (its messages are the questions and answers of *)
(* its history rows, its lastUpdated the latest of their created_at),      *)
(* whatever localStorage held under that id; a session only localStorage   *)
(* held is in the list unchanged; the list is sorted by lastUpdated,       *)
(* newest first; and it is the list saved to localStorage and, when not    *)
(* empty, the list the page shows.                                         *)
(***************************************************************************)
MergedAs(history, local, merged) ==
    LET idOf(h) == IF h.session_id # NoSession THEN h.session_id ELSE LegacyId
        backendIds == {idOf(h) : h \in history}
        rowsOf(s) == {h \in history : idOf(h) = s}
    IN  /\ \A i \in 1..Len(merged) : \A j \in 1..Len(merged) :
               i # j => merged[i].id # merged[j].id
        /\ \A s \in backendIds : \E i \in 1..Len(merged) :
               /\ merged[i].id = s
               /\ Len(merged[i].messages) = 2 * Cardinality(rowsOf(s))
               /\ {merged[i].messages[k].chat : k \in 1..Len(merged[i].messages)}
                      = {h.id : h \in rowsOf(s)}
               /\ \E h \in rowsOf(s) :
                      /\ merged[i].lastUpdated = h.created_at
                      /\ \A q \in rowsOf(s) : q.created_at <= h.created_at
        /\ \A i \in 1..Len(local) :
               local[i].id \notin backendIds =>
                   \E j \in 1..Len(merged) : merged[j] = local[i]
        /\ \A i \in 1..Len(merged) : \A j \in 1..Len(merged) :
               i < j => merged[i].lastUpdated >= merged[j].lastUpdated

SyncMergeContract ==
    [][\A loaded \in BOOLEAN :
           (LoadChatHistory(loaded) \/ refreshChatHistory(loaded)) =>
               /\ MergedAs(IF loaded THEN backendHistory ELSE {}, localStorage,
                           localStorage')
               /\ Len(localStorage') > 0 => chatSessions' = localStorage']_vars

\* A page has loaded with the backend's version of a session, which the
\* history and localStorage both hold now, below or above a session only
\* localStorage held.
SyncMergeWitness ==
    /\ mounted
    /\ chatSessions = localStorage
    /\ \E i \in 1..Len(localStorage) : \E j \in 1..Len(localStorage) :
           /\ localStorage[i].id \in {h.session_id : h \in backendHistory}
           /\ localStorage[i].messages # << >>
           /\ localStorage[j].id \notin {h.session_id : h \in backendHistory}
           /\ localStorage[j].id # LegacyId
           /\ localStorage[j].messages = <<[role |-> "user", chat |-> NoChat]>>


(***************************************************************************)
(* C22 - Thread continuity: the thread_id a message is sent with is the    *)
(* one a previous answer of the same chat session returned, or none; a     *)
(* thread_id obtained in one session is never sent with a message of       *)
(* another session, also when the answer arrives after the user has        *)
(* switched to or created another session.  (A thread is named by the      *)
(* session whose request opened it.)                                       *)
(***************************************************************************)
ThreadContinuity ==
    \A r \in requests :
        r.kind = "send" => r.thread \in {NoThread, r.session}


(***************************************************************************)
(* C24 - Session ordering (most recent first): after any sequence of       *)
(* sending, regenerating, editing, starting a new chat, deleting a session *)
(* and syncing with the backend, chatSessions is ordered by lastUpdated    *)
(* descending, and a handler that adds or changes a session leaves that    *)
(* session at the top.                                                     *)
(***************************************************************************)
NewestFirstHolds ==
    \A i \in 1..Len(chatSessions) : \A j \in 1..Len(chatSessions) :
        i < j => chatSessions[i].lastUpdated >= chatSessions[j].lastUpdated

ModifiedOnTop ==
    \/ \E loaded \in BOOLEAN : LoadChatHistory(loaded) \/ refreshChatHistory(loaded)
    \/ \A i \in 1..Len(chatSessions') :
           (\A j \in 1..Len(chatSessions) : chatSessions[j] # chatSessions'[i]) => i = 1

CurrentSessionListed ==
    currentSessionId = NoSession \/ currentSessionId \in SessionIdsOf(chatSessions)


(***************************************************************************)
(* C23 - Individual file status tracking: a file accepted for upload is    *)
(* listed as uploading while its upload request is under way and is        *)
(* success or error afterwards according to the outcome of that request,   *)
(* whatever becomes of later uploads; a file with an unsupported extension *)
(* is never listed and never sent.                                         *)
(***************************************************************************)
FileStatusTracked ==
    /\ \A i \in 1..Len(uploadedFiles) :
           /\ uploadedFiles[i].ext \in supportedExtensions
           /\ uploadedFiles[i].status =
                  CASE outcomes[uploadedFiles[i].batch] = "pending" -> "uploading"
                    [] outcomes[uploadedFiles[i].batch] = "ok" -> "success"
                    [] outcomes[uploadedFiles[i].batch] = "failed" -> "error"
    /\ \A u \in uploads : \A k \in 1..Len(u.files) : u.files[k] \in supportedExtensions

=============================================================================
